---------------------------- MODULE Spec2Model ----------------------------
(***************************************************************************)
(* A model of gittar: the identifier parser and tarball URL resolver       *)
(* (getTarUrl.ts), the download loop with its main -> master fallback      *)
(* (download.ts), the cache check and copy (cache.ts), the extraction      *)
(* (extract.ts) and the cache-first entry point (gittar.ts).               *)
(*                                                                         *)
(* Strings are sequences of one-character strings, so that the parser's    *)
(* startsWith / includes / split / replace are computed, not assumed.      *)
(* An optional value (undefined in the source) is the empty tuple <<>>;    *)
(* a present value v is the one-element tuple <<v>>.                       *)
(***************************************************************************)
EXTENDS Naturals, Integers, Sequences, FiniteSets, TLC

(***************************************************************************)
(* String primitives (the JavaScript String methods the source uses).      *)
(***************************************************************************)

\* JavaScript truthiness of an optional string: defined and not ''.
Truthy(o) == o # <<>> /\ o[1] # <<>>

\* a || b on optional strings.
OrElse(a, b) == IF Truthy(a) THEN a ELSE b

Drop(s, n) == SubSeq(s, n + 1, Len(s))

StartsWith(s, p) == Len(p) <= Len(s) /\ SubSeq(s, 1, Len(p)) = p

EndsWith(s, p) == Len(p) <= Len(s) /\ SubSeq(s, Len(s) - Len(p) + 1, Len(s)) = p

Includes(s, p) == \E i \in 0..(Len(s) - Len(p)) : SubSeq(s, i + 1, i + Len(p)) = p

\* First index of character c in s, 0 when absent.
IndexOf(s, c) ==
  IF \E i \in 1..Len(s) : s[i] = c
  THEN CHOOSE i \in 1..Len(s) : s[i] = c /\ \A j \in 1..(i - 1) : s[j] # c
  ELSE 0

\* Last index of character c in s, 0 when absent.
LastIndexOf(s, c) ==
  IF \E i \in 1..Len(s) : s[i] = c
  THEN CHOOSE i \in 1..Len(s) : s[i] = c /\ \A j \in (i + 1)..Len(s) : s[j] # c
  ELSE 0

\* s.split(c) for a one-character separator: empty pieces are kept.
RECURSIVE Split(_, _)
Split(s, c) ==
  LET i == IndexOf(s, c)
  IN  IF i = 0 THEN <<s>>
      ELSE <<SubSeq(s, 1, i - 1)>> \o Split(Drop(s, i), c)

\* parts.filter(Boolean): the empty strings are dropped.
FilterBoolean(parts) == SelectSeq(parts, LAMBDA x : x # <<>>)

\* parts.join(sep)
RECURSIVE Join(_, _)
Join(parts, sep) ==
  IF Len(parts) = 0 THEN <<>>
  ELSE IF Len(parts) = 1 THEN parts[1]
  ELSE parts[1] \o sep \o Join(Tail(parts), sep)

UpperChars == <<"A", "B", "C", "D", "E", "F", "G", "H", "I", "J", "K", "L", "M",
                "N", "O", "P", "Q", "R", "S", "T", "U", "V", "W", "X", "Y", "Z">>

LowerChars == <<"a", "b", "c", "d", "e", "f", "g", "h", "i", "j", "k", "l", "m",
                "n", "o", "p", "q", "r", "s", "t", "u", "v", "w", "x", "y", "z">>

DigitChars == <<"0", "1", "2", "3", "4", "5", "6", "7", "8", "9">>

Range(f) == {f[i] : i \in DOMAIN f}

IsAlpha(c) == c \in Range(UpperChars) \cup Range(LowerChars)

IsDigit(c) == c \in Range(DigitChars)

LowerChar(c) ==
  IF c \in Range(UpperChars)
  THEN LowerChars[CHOOSE i \in 1..Len(UpperChars) : UpperChars[i] = c]
  ELSE c

\* s.toLowerCase()
ToLowerCase(s) == [i \in 1..Len(s) |-> LowerChar(s[i])]

(***************************************************************************)
(* String literals of the source.                                          *)
(***************************************************************************)

S_slash == <<"/">>

S_main == <<"m", "a", "i", "n">>

S_master == <<"m", "a", "s", "t", "e", "r">>

S_gitAt == <<"g", "i", "t", "@">>

S_dotGit == <<".", "g", "i", "t">>

S_schemeSep == <<":", "/", "/">>

S_http == <<"h", "t", "t", "p">>

S_https == <<"h", "t", "t", "p", "s">>

S_githubCom == <<"g", "i", "t", "h", "u", "b", ".", "c", "o", "m">>

S_httpsPrefix == <<"h", "t", "t", "p", "s", ":", "/", "/">>

S_archive == <<"/", "a", "r", "c", "h", "i", "v", "e", "/">>

S_dashArchive == <<"/", "-", "/", "a", "r", "c", "h", "i", "v", "e", "/">>

S_get == <<"/", "g", "e", "t", "/">>

S_tarGz == <<".", "t", "a", "r", ".", "g", "z">>

S_dash == <<"-">>

(***************************************************************************)
(* new URL(input): the WHATWG URL parser, for the inputs that reach it     *)
(* (no base URL, no IPv6 literal, no percent escapes).  The result is <<>> *)
(* when the constructor throws, and <<[hostname, pathname]>> otherwise.    *)
(* Intermediate results are passed as parameters, one operator per stage   *)
(* of the parser.                                                          *)
(***************************************************************************)

SpecialSchemes == {S_http, S_https}

IsSchemeChar(c) == IsAlpha(c) \/ IsDigit(c) \/ c \in {"+", "-", "."}

\* Code points a host of a special scheme may not hold.
ForbiddenHostChars == {" ", "#", "/", ":", "<", ">", "?", "@", "[", "\\", "]", "^", "|", "%"}

CutAt(s, cut) == IF cut = 0 THEN s ELSE SubSeq(s, 1, cut - 1)

\* The input up to its query or fragment.
BeforeQueryOrFragment(s) == CutAt(CutAt(s, IndexOf(s, "?")), IndexOf(CutAt(s, IndexOf(s, "?")), "#"))

RECURSIVE DropLeadingSlashes(_)
DropLeadingSlashes(s) ==
  IF Len(s) > 0 /\ s[1] = "/" THEN DropLeadingSlashes(Tail(s)) ELSE s

\* The path state: '.' is dropped, '..' removes the segment before it, and a
\* dot segment in last position leaves an empty last segment.
RECURSIVE PathState(_, _)
PathState(segs, acc) ==
  IF Len(segs) = 0 THEN acc
  ELSE IF segs[1] = <<".", ".">>
  THEN PathState(Tail(segs),
         (IF Len(acc) > 0 THEN SubSeq(acc, 1, Len(acc) - 1) ELSE acc)
           \o (IF Len(segs) = 1 THEN <<<<>>>> ELSE <<>>))
  ELSE IF segs[1] = <<".">>
  THEN PathState(Tail(segs), acc \o (IF Len(segs) = 1 THEN <<<<>>>> ELSE <<>>))
  ELSE PathState(Tail(segs), Append(acc, segs[1]))

\* The pathname of a hierarchical URL whose path text (after the authority) is p.
HierPathname(p) ==
  IF p = <<>> THEN <<>>
  ELSE S_slash \o Join(PathState(Split(Tail(p), "/"), <<>>), S_slash)

\* host and port text -> <<>> (failure) or <<host>>: the port must be digits,
\* the host of a special scheme is not empty and is lower-cased.
HostOf(host, port, special, hasCredentials) ==
  IF \E i \in 1..Len(port) : ~IsDigit(port[i]) THEN <<>>
  ELSE IF (special \/ hasCredentials) /\ host = <<>> THEN <<>>
  ELSE IF \E i \in 1..Len(host) : host[i] \in ForbiddenHostChars THEN <<>>
  ELSE <<IF special THEN ToLowerCase(host) ELSE host>>

HostOfHostPort(hostport, colon, special, hasCredentials) ==
  HostOf(CutAt(hostport, colon),
         IF colon = 0 THEN <<>> ELSE Drop(hostport, colon),
         special, hasCredentials)

\* Authority text: credentials before the last '@' are dropped.
HostOfAuthority(auth, special) ==
  HostOfHostPort(Drop(auth, LastIndexOf(auth, "@")),
                 IndexOf(Drop(auth, LastIndexOf(auth, "@")), ":"),
                 special, LastIndexOf(auth, "@") > 0)

UrlRecord(host, path, special) ==
  IF host = <<>> THEN <<>>
  ELSE <<[hostname |-> host[1],
          pathname |-> IF special /\ path = <<>> THEN S_slash ELSE HierPathname(path)]>>

\* r1 is the text from the authority on, sl the index of its first '/'.
ParseAuthority(r1, sl, special) ==
  UrlRecord(HostOfAuthority(CutAt(r1, sl), special),
            IF sl = 0 THEN <<>> ELSE Drop(r1, sl - 1),
            special)

\* rest is the input after 'scheme:', without query and fragment.
ParseAfterScheme(rest, special) ==
  IF special
  THEN ParseAuthority(DropLeadingSlashes(rest), IndexOf(DropLeadingSlashes(rest), "/"), TRUE)
  ELSE IF StartsWith(rest, <<"/", "/">>)
  THEN ParseAuthority(Drop(rest, 2), IndexOf(Drop(rest, 2), "/"), FALSE)
  ELSE IF StartsWith(rest, S_slash)
  THEN <<[hostname |-> <<>>, pathname |-> HierPathname(rest)]>>
  ELSE <<[hostname |-> <<>>, pathname |-> rest]>>

ParseWithColon(input, colon) ==
  IF ~(/\ colon > 1
       /\ IsAlpha(input[1])
       /\ \A i \in 2..(colon - 1) : IsSchemeChar(input[i]))
  THEN <<>>
  ELSE ParseAfterScheme(BeforeQueryOrFragment(Drop(input, colon)),
                        ToLowerCase(SubSeq(input, 1, colon - 1)) \in SpecialSchemes)

ParseURL(input) == ParseWithColon(input, IndexOf(input, ":"))

(***************************************************************************)
(* getTarUrl.ts: parseInput and its three formats.  A descriptor is        *)
(* <<>> (null) or <<[owner, repo, hostname, ref, subpath]>>, subpath        *)
(* optional.                                                               *)
(***************************************************************************)

\* defaultBranch || 'main'
DefaultRef(defaultBranch) == IF Truthy(defaultBranch) THEN defaultBranch[1] ELSE S_main

\* Variant: the suffix stays.
StripGitSuffixNever(path) == path

\* path.replace(/\.git$/, '')
StripGitSuffix(path) ==
  IF EndsWith(path, S_dotGit) THEN SubSeq(path, 1, Len(path) - Len(S_dotGit)) ELSE path

\* The tail of parseSshFormat and parseShortFormat: parts.length < 2 gives
\* null, else owner and repo are the first two parts.
OwnerRepo(parts, hostname, defaultBranch) ==
  IF Len(parts) < 2 THEN <<>>
  ELSE <<[owner |-> parts[1], repo |-> parts[2], hostname |-> hostname,
          ref |-> DefaultRef(defaultBranch), subpath |-> <<>>]>>

\* input.match(/^git@([^:]+):(.+)$/): rest is the input after 'git@', colon
\* the index of its first ':'.
SshMatch(rest, colon, defaultBranch) ==
  IF ~(colon >= 2 /\ colon < Len(rest)) THEN <<>>
  ELSE OwnerRepo(FilterBoolean(Split(StripGitSuffix(Drop(rest, colon)), "/")),
                 SubSeq(rest, 1, colon - 1), defaultBranch)

parseSshFormat(input, defaultBranch) ==
  IF ~StartsWith(input, S_gitAt) THEN <<>>
  ELSE SshMatch(Drop(input, Len(S_gitAt)), IndexOf(Drop(input, Len(S_gitAt)), ":"),
                defaultBranch)

\* Variant: empty segments are kept.
parseShortFormatKeepingEmpty(input, defaultBranch) ==
  OwnerRepo(Split(input, "/"), S_githubCom, defaultBranch)

parseShortFormat(input, defaultBranch) ==
  OwnerRepo(FilterBoolean(Split(input, "/")), S_githubCom, defaultBranch)

BranchMarkers == {<<"t", "r", "e", "e">>, <<"b", "l", "o", "b">>, <<"r", "a", "w">>, <<"s", "r", "c">>, <<"b", "r", "o", "w", "s", "e">>}

\* Variant: a ref in the path is not looked at.
RefOfRestDefault(rest, defaultBranch) == DefaultRef(defaultBranch)

\* The branch and subpath detection of parseUrlFormat, on the segments after
\* owner and repo.
RefOfRest(rest, defaultBranch) ==
  IF Len(rest) > 0 /\ rest[1] \in BranchMarkers /\ Len(rest) >= 2
  THEN rest[2] ELSE DefaultRef(defaultBranch)

\* Variant: the subpath is the one segment after the ref.
SubpathOfRestOneSegment(rest) ==
  IF Len(rest) > 0 /\ rest[1] \in BranchMarkers /\ Len(rest) > 2
  THEN <<rest[3]>> ELSE <<>>

SubpathOfRest(rest) ==
  IF Len(rest) > 0 /\ rest[1] \in BranchMarkers /\ Len(rest) > 2
  THEN <<Join(Drop(rest, 2), S_slash)>> ELSE <<>>

UrlParts(pathParts, hostname, defaultBranch) ==
  IF Len(pathParts) < 2 THEN <<>>
  ELSE <<[owner |-> pathParts[1], repo |-> pathParts[2], hostname |-> hostname,
          ref |-> RefOfRest(Drop(pathParts, 2), defaultBranch),
          subpath |-> SubpathOfRest(Drop(pathParts, 2))]>>

parseUrlFormat(url, defaultBranch) ==
  UrlParts(FilterBoolean(Split(url.pathname, "/")), url.hostname, defaultBranch)

\* try { parseUrlFormat(new URL(input)) } catch { parseShortFormat(input) }
ParseUrlOrShort(url, input, defaultBranch) ==
  IF url = <<>> THEN parseShortFormat(input, defaultBranch)
  ELSE parseUrlFormat(url[1], defaultBranch)

parseInput(input, defaultBranch) ==
  IF StartsWith(input, S_gitAt) THEN parseSshFormat(input, defaultBranch)
  ELSE IF ~Includes(input, S_schemeSep) /\ ~StartsWith(input, S_http) /\ ~Includes(input, <<"@">>)
  THEN parseShortFormat(input, defaultBranch)
  ELSE ParseUrlOrShort(ParseURL(input), input, defaultBranch)

(***************************************************************************)
(* getTarUrl.ts: detectPlatform and getTarUrl.                             *)
(***************************************************************************)

\* The mapping in its insertion order, which Object.entries keeps.
platformMappings ==
  << [platform |-> "azure", checks |-> {<<"d", "e", "v", ".", "a", "z", "u", "r", "e", ".", "c", "o", "m">>, <<"v", "i", "s", "u", "a", "l", "s", "t", "u", "d", "i", "o", ".", "c", "o", "m">>}],
     [platform |-> "codeberg", checks |-> {<<"c", "o", "d", "e", "b", "e", "r", "g">>}],
     [platform |-> "forgejo", checks |-> {<<"f", "o", "r", "g", "e", "j", "o">>}],
     [platform |-> "gitea", checks |-> {<<"g", "i", "t", "e", "a">>}],
     [platform |-> "github", checks |-> {<<"g", "i", "t", "h", "u", "b">>}],
     [platform |-> "gitlab", checks |-> {<<"g", "i", "t", "l", "a", "b">>}],
     [platform |-> "bitbucket", checks |-> {<<"b", "i", "t", "b", "u", "c", "k", "e", "t">>}] >>

\* Variant: the last entry of the mapping with a matching check wins.
LastHit(hits) ==
  IF hits = {} THEN "null"
  ELSE platformMappings[CHOOSE i \in hits : \A j \in hits : i >= j].platform

\* The first entry of the mapping with a check the host name includes.
FirstHit(hits) ==
  IF hits = {} THEN "null"
  ELSE platformMappings[CHOOSE i \in hits : \A j \in hits : i <= j].platform

\* The platform name, or "null".
detectPlatform(hostname) ==
  FirstHit({i \in 1..Len(platformMappings) :
              \E check \in platformMappings[i].checks :
                 Includes(ToLowerCase(hostname), check)})

\* Variant: the host name is written in lower case.
TarUrlForLowerCased(platform, hostname, owner, repo, ref) ==
  IF platform = "gitlab"
  THEN S_httpsPrefix \o ToLowerCase(hostname) \o S_slash \o owner \o S_slash \o repo
         \o S_dashArchive \o ref \o S_slash \o repo \o S_dash \o ref \o S_tarGz
  ELSE IF platform = "bitbucket"
  THEN S_httpsPrefix \o ToLowerCase(hostname) \o S_slash \o owner \o S_slash \o repo
         \o S_get \o ref \o S_tarGz
  ELSE S_httpsPrefix \o ToLowerCase(hostname) \o S_slash \o owner \o S_slash \o repo
         \o S_archive \o ref \o S_tarGz

\* The URL template of a platform.
TarUrlFor(platform, hostname, owner, repo, ref) ==
  IF platform = "gitlab"
  THEN S_httpsPrefix \o hostname \o S_slash \o owner \o S_slash \o repo
         \o S_dashArchive \o ref \o S_slash \o repo \o S_dash \o ref \o S_tarGz
  ELSE IF platform = "bitbucket"
  THEN S_httpsPrefix \o hostname \o S_slash \o owner \o S_slash \o repo
         \o S_get \o ref \o S_tarGz
  ELSE S_httpsPrefix \o hostname \o S_slash \o owner \o S_slash \o repo
         \o S_archive \o ref \o S_tarGz

\* Variant: a host of no known platform gets the default template.
TarUrlOfAnyPlatform(parsed, platform) ==
  IF platform = "azure" THEN <<>>
  ELSE <<TarUrlFor(platform, parsed.hostname, parsed.owner, parsed.repo, parsed.ref)>>

\* Variant: Azure DevOps is not excluded.
TarUrlOfAzureToo(parsed, platform) ==
  IF platform = "null" THEN <<>>
  ELSE <<TarUrlFor(platform, parsed.hostname, parsed.owner, parsed.repo, parsed.ref)>>

\* getTarUrl after parseInput and detectPlatform.
TarUrlOf(parsed, platform) ==
  IF platform = "null" THEN <<>>
  ELSE IF platform = "azure" THEN <<>>
  ELSE <<TarUrlFor(platform, parsed.hostname, parsed.owner, parsed.repo, parsed.ref)>>

TarUrlOfParsed(parsed) ==
  IF parsed = <<>> THEN <<>>
  ELSE TarUrlOf(parsed[1], detectPlatform(parsed[1].hostname))

\* <<>> (null) or <<url>>.
getTarUrl(input, branch) == TarUrlOfParsed(parseInput(input, branch))

(***************************************************************************)
(* The filesystem the shell commands and Bun's Glob act on.  A path string *)
(* is resolved to a sequence of segments; fsys maps each existing path to  *)
(* "dir" or to the data of the file.                                       *)
(***************************************************************************)

\* os.homedir()
S_home == <<"/", "h">>

\* The working directory of the process.
Cwd == <<<<"w">>>>

RECURSIVE Walk(_, _)
Walk(segs, acc) ==
  IF Len(segs) = 0 THEN acc
  ELSE IF segs[1] = <<>> \/ segs[1] = <<".">> THEN Walk(Tail(segs), acc)
  ELSE IF segs[1] = <<".", ".">>
  THEN Walk(Tail(segs), IF Len(acc) > 0 THEN SubSeq(acc, 1, Len(acc) - 1) ELSE acc)
  ELSE Walk(Tail(segs), Append(acc, segs[1]))

\* Path resolution of a path string, '.' and '..' taken lexically.
Canon(path) ==
  Walk(Split(path, "/"), IF StartsWith(path, S_slash) THEN <<>> ELSE Cwd)

IsPrefix(d, q) == Len(d) <= Len(q) /\ SubSeq(q, 1, Len(d)) = d

Exists(fsys, q) == q \in DOMAIN fsys

IsDir(fsys, q) == q \in DOMAIN fsys /\ fsys[q] = "dir"

IsFile(fsys, q) == q \in DOMAIN fsys /\ fsys[q] # "dir"

Prefixes(q) == {SubSeq(q, 1, n) : n \in 0..Len(q)}

\* mkdir -p succeeds unless a component of the path is a file.
CanMkdirP(fsys, q) == \A d \in Prefixes(q) : ~IsFile(fsys, d)

MkdirP(fsys, q) ==
  [d \in Prefixes(q) \ DOMAIN fsys |-> "dir"] @@ fsys

\* Variant: a file that exists is left as it is (tar --skip-old-files).
WriteFileKeepingOld(fsys, q, data) ==
  MkdirP(fsys, SubSeq(q, 1, Len(q) - 1)) @@ (q :> data)

\* Writing a file, its parent directories created (tar, cp).
WriteFile(fsys, q, data) ==
  (q :> data) @@ MkdirP(fsys, SubSeq(q, 1, Len(q) - 1))

\* Paths strictly below directory d.
Below(fsys, d) == {q \in DOMAIN fsys : IsPrefix(d, q) /\ Len(q) > Len(d)}

IsHidden(rel) == \E i \in 1..Len(rel) : StartsWith(rel[i], <<".">>)

\* Variant: new Glob('*'), the files directly in cwd only.
GlobScanTopLevel(fsys, cwd) ==
  { Join(Drop(q, Len(cwd)), S_slash) :
      q \in {f \in Below(fsys, cwd) : IsFile(fsys, f) /\ Len(f) = Len(cwd) + 1
                                        /\ ~IsHidden(Drop(f, Len(cwd)))} }

\* Variant: scan with dot: true, hidden entries included.
GlobScanWithHidden(fsys, cwd) ==
  { Join(Drop(q, Len(cwd)), S_slash) : q \in {f \in Below(fsys, cwd) : IsFile(fsys, f)} }

\* new Glob('**/*').scan({cwd, onlyFiles: true}): the files below cwd, as
\* paths relative to it, entries whose name starts with '.' left out.
GlobScan(fsys, cwd) ==
  { Join(Drop(q, Len(cwd)), S_slash) :
      q \in {f \in Below(fsys, cwd) : IsFile(fsys, f) /\ ~IsHidden(Drop(f, Len(cwd)))} }

(***************************************************************************)
(* Array.prototype.sort() on strings: ascending by UTF-16 code unit.       *)
(***************************************************************************)

\* The characters of the model in code-unit order.
CharOrder == <<" ", "#", "%", "+", "-", ".", "/">> \o DigitChars
             \o <<":", "<", ">", "?", "@">> \o UpperChars
             \o <<"[", "\\", "]", "^", "_">> \o LowerChars \o <<"|", "~">>

CodeUnit(c) == CHOOSE i \in 1..Len(CharOrder) : CharOrder[i] = c

RECURSIVE StrLess(_, _)
StrLess(a, b) ==
  IF Len(b) = 0 THEN FALSE
  ELSE IF Len(a) = 0 THEN TRUE
  ELSE IF a[1] = b[1] THEN StrLess(Tail(a), Tail(b))
  ELSE CodeUnit(a[1]) < CodeUnit(b[1])

RECURSIVE SortStrings(_)
SortStrings(S) ==
  IF S = {} THEN <<>>
  ELSE LET m == CHOOSE x \in S : \A y \in S \ {x} : StrLess(x, y)
       IN  <<m>> \o SortStrings(S \ {m})

(***************************************************************************)
(* utils.ts: normalizePath, getCacheDir.                                   *)
(***************************************************************************)

S_tildeSlash == <<"~", "/">>

S_tilde == <<"~">>

S_cacheRoot == <<"/", ".", "c", "a", "c", "h", "e", "/", "h", "u", "l", "l", "a", "/",
                 "g", "i", "t", "t", "a", "r", "/">>

\* Variant: only a leading '~/' is expanded, a bare '~' is not.
normalizePathSlashOnly(path) ==
  IF StartsWith(path, S_tildeSlash) THEN S_home \o S_slash \o Drop(path, 2)
  ELSE path

normalizePath(path) ==
  IF StartsWith(path, S_tildeSlash) THEN S_home \o S_slash \o Drop(path, 2)
  ELSE IF path = S_tilde THEN S_home
  ELSE path

\* <<>> when it throws URLError, else <<[owner, repo, subpath]>>.
RepoInfoOf(parsed) ==
  IF parsed = <<>> THEN <<>>
  ELSE <<[owner |-> parsed[1].owner, repo |-> parsed[1].repo,
          subpath |-> parsed[1].subpath]>>

parseRepoInfo(url) == RepoInfoOf(parseInput(url, <<>>))

\* Variant: the default cache directory has the subpath appended.
getCacheDirPerSubpath(config, owner, repo) ==
  IF Truthy(config.cacheDir) THEN normalizePath(config.cacheDir[1])
  ELSE S_home \o S_cacheRoot \o owner \o S_slash \o repo
         \o (IF Truthy(config.subpath) THEN S_slash \o config.subpath[1] ELSE <<>>)

\* Variant: outDir doubles as the cache directory when cacheDir is not given.
getCacheDirOrOutDir(config, owner, repo) ==
  IF Truthy(config.cacheDir) THEN normalizePath(config.cacheDir[1])
  ELSE IF Truthy(config.outDir) THEN normalizePath(config.outDir[1])
  ELSE S_home \o S_cacheRoot \o owner \o S_slash \o repo

\* Variant: the default cache directory also depends on the branch.
getCacheDirPerBranch(config, owner, repo) ==
  IF Truthy(config.cacheDir) THEN normalizePath(config.cacheDir[1])
  ELSE S_home \o S_cacheRoot \o owner \o S_slash \o repo
         \o (IF Truthy(config.branch) THEN S_slash \o config.branch[1] ELSE <<>>)

getCacheDir(config, owner, repo) ==
  IF Truthy(config.cacheDir) THEN normalizePath(config.cacheDir[1])
  ELSE S_home \o S_cacheRoot \o owner \o S_slash \o repo

\* config.outDir ? normalizePath(config.outDir) : cacheDir   (gittar.ts)
ResolveOutDir(config, cacheDir) ==
  IF Truthy(config.outDir) THEN normalizePath(config.outDir[1]) ELSE cacheDir

\* config.subpath || parsed.subpath   (gittar.ts)
EffectiveSubpath(config, parsedSubpath) == OrElse(config.subpath, parsedSubpath)

\* Variant: the cache is consulted whatever config.update is.
ChecksCacheAlways(config) == TRUE

\* config.update !== true   (gittar.ts)
ChecksCache(config) == config.update # "true"

(***************************************************************************)
(* cache.ts: checkCache and copyFiles, each on a filesystem value.         *)
(***************************************************************************)

\* subpath ? `${dir}/${subpath}` : dir
SubDir(dir, subpath) == IF Truthy(subpath) THEN dir \o S_slash \o subpath[1] ELSE dir

\* The sorted absolute paths `${dir}/${file}` of a scan of dir.
Listing(fsys, dir) ==
  SortStrings({dir \o S_slash \o file : file \in GlobScan(fsys, Canon(dir))})

\* checkCache on resolved paths: dir is cacheDir, search is searchDir.
\* [tag |-> "null"], [tag |-> "throw"] or [tag |-> "files", files |-> ...].
CheckDirs(fsys, dir, search, searchDir) ==
  IF ~IsDir(fsys, dir) THEN [tag |-> "null", files |-> <<>>]
  ELSE IF ~Exists(fsys, search) THEN [tag |-> "null", files |-> <<>>]
  ELSE IF ~IsDir(fsys, search) THEN [tag |-> "throw", files |-> <<>>]
  ELSE [tag |-> "files", files |-> Listing(fsys, searchDir)]

\* Variant: only cacheDir is tested, the subpath is not.
checkCacheIgnoringSubpath(fsys, cacheDir, subpath) ==
  CheckDirs(fsys, Canon(cacheDir), Canon(cacheDir), SubDir(cacheDir, subpath))

checkCache(fsys, cacheDir, subpath) ==
  CheckDirs(fsys, Canon(cacheDir), Canon(SubDir(cacheDir, subpath)),
            SubDir(cacheDir, subpath))

\* Variant: the entries are moved, not copied (mv).
MoveTree(fsys, src, dst) ==
  [t \in {dst \o Drop(q, Len(src)) : q \in Below(fsys, src)}
         \cup (DOMAIN fsys \ Below(fsys, src)) |->
     IF IsPrefix(dst, t) /\ Len(t) > Len(dst) /\ Exists(fsys, src \o Drop(t, Len(dst)))
     THEN fsys[src \o Drop(t, Len(dst))] ELSE fsys[t]]

\* cp -R src/. dst/ : every entry below src is written below dst.
CopyTree(fsys, src, dst) ==
  [t \in {dst \o Drop(q, Len(src)) : q \in Below(fsys, src)} |->
     fsys[src \o Drop(t, Len(dst))]] @@ fsys

\* The scan of destDir after the copy.
Copied(copied, destDir) ==
  [tag |-> "files", files |-> Listing(copied, destDir), fsys |-> copied]

\* Variant: the copy is left out, destDir is listed as it is.
CopyMadeWithoutCopy(made, src, dst, destDir) == Copied(made, destDir)

\* After mkdir -p destDir: test -e copySource, then cp.
CopyMade(made, src, dst, destDir) ==
  IF ~Exists(made, src) \/ ~IsDir(made, src) \/ IsPrefix(src, dst)
  THEN [tag |-> "throw", files |-> <<>>, fsys |-> made]
  ELSE Copied(CopyTree(made, src, dst), destDir)

\* copyFiles on resolved paths: src is copySource, dst is destDir.
CopyFrom(fsys, src, dst, destDir) ==
  IF ~CanMkdirP(fsys, dst) THEN [tag |-> "throw", files |-> <<>>, fsys |-> fsys]
  ELSE CopyMade(MkdirP(fsys, dst), src, dst, destDir)

\* Variant: the whole of sourceDir is copied, whatever the subpath.
copyFilesWholeSource(fsys, sourceDir, destDir, subpath) ==
  CopyFrom(fsys, Canon(sourceDir), Canon(destDir), destDir)

\* [tag |-> "throw" or "files", files, fsys]: the filesystem it leaves behind.
copyFiles(fsys, sourceDir, destDir, subpath) ==
  CopyFrom(fsys, Canon(SubDir(sourceDir, subpath)), Canon(destDir), destDir)

\* cp stops with an error when destDir lies inside copySource; a cp that has
\* by then copied the entries outside destDir leaves this filesystem.
CopyIntoItself(made, src, dst) ==
  [t \in {dst \o Drop(q, Len(src)) :
            q \in {b \in Below(made, src) : ~IsPrefix(dst, b)}} |->
     made[src \o Drop(t, Len(dst))]] @@ made

\* What a call of copyFiles can leave behind, given plain, its outcome with a
\* cp that copies nothing before it refuses to copy a directory into itself.
CopyOutcomes(plain, src, dst) ==
  IF plain.tag = "throw" /\ IsDir(plain.fsys, src) /\ IsDir(plain.fsys, dst)
     /\ IsPrefix(src, dst)
  THEN {plain, [plain EXCEPT !.fsys = CopyIntoItself(plain.fsys, src, dst)]}
  ELSE {plain}

(***************************************************************************)
(* The remote side: the answer to one request and the archives served.     *)
(***************************************************************************)

\* A truncated archive makes tar fail after at most this many entries.
MaxCut == 1

\* A ref whose tree differs from that of the other refs.
S_v2 == <<"v", "2">>

\* The entries of the tarball of a ref, under its conventional root directory:
\* the tree of v2 has another a, a file d of its own and no directory s.
Archive(ref) ==
  IF ref = S_v2
  THEN << [path |-> <<<<"t">>, <<"a">>>>, data |-> "V"],
          [path |-> <<<<"t">>, <<"d">>>>, data |-> "D"] >>
  ELSE << [path |-> <<<<"t">>, <<"a">>>>, data |-> "A"],
          [path |-> <<<<"t">>, <<"s">>, <<"b">>>>, data |-> "B"],
          [path |-> <<<<"t">>, <<"s">>, <<".", "h">>>>, data |-> "H"] >>

\* Variant: --strip-components=2.
StripTwoComponents(entries) ==
  LET kept == SelectSeq(entries, LAMBDA e : Len(e.path) > 2)
  IN  [i \in 1..Len(kept) |->
         [path |-> Tail(Tail(kept[i].path)), data |-> kept[i].data]]

\* tar --strip-components=1: the first component of every path removed, the
\* entries that have no other component left out.
StripComponents(entries) ==
  LET kept == SelectSeq(entries, LAMBDA e : Len(e.path) > 1)
  IN  [i \in 1..Len(kept) |-> [path |-> Tail(kept[i].path), data |-> kept[i].data]]

\* What fetch(url) may do: resolve with a status (and, when ok, a body that is
\* an intact archive, one tar rejects after cut entries, or one that cannot be
\* read), or reject.
Answers ==
  {[kind |-> "response", status |-> 200, intact |-> TRUE, cut |-> 0]}
  \cup {[kind |-> "response", status |-> 200, intact |-> FALSE, cut |-> k] : k \in 0..MaxCut}
  \cup {[kind |-> "response", status |-> st, intact |-> FALSE, cut |-> 0] : st \in {404, 500}}
  \cup {[kind |-> "reject", status |-> 0, intact |-> FALSE, cut |-> 0],
        [kind |-> "unreadable", status |-> 200, intact |-> FALSE, cut |-> 0]}

\* Variant: every response counts as ok.
ResponseOkAlways(answer) == TRUE

\* response.ok
ResponseOk(answer) == answer.status >= 200 /\ answer.status <= 299

(***************************************************************************)
(* download.ts: the candidate list and the fallback rule.                  *)
(***************************************************************************)

\* Variant: the default branches are appended to a supplied branch.
branchesWithFallback(config) ==
  IF Truthy(config.branch) THEN <<config.branch[1], S_main, S_master>>
  ELSE <<S_main, S_master>>

\* config.branch ? [config.branch] : ['main', 'master']
branches(config) ==
  IF Truthy(config.branch) THEN <<config.branch[1]>> ELSE <<S_main, S_master>>

\* Variant: a 404 is terminal on every candidate.
NeverContinues(status, i, n) == FALSE

\* Variant: every failing status moves on to the next candidate.
ContinuesOnAnyError(status, i, n) == i < n - 1

\* Variant: a 404 moves on even from the last candidate.
ContinuesOn404(status, i, n) == status = 404

\* response.status === 404 && i < branches.length - 1   (i counted from 0)
ContinuesToNext(status, i, n) == status = 404 /\ i < n - 1

(***************************************************************************)
(* The state.                                                              *)
(*   fs     the filesystem (shared by all invocations)                     *)
(*   tmp    the invocations whose staged temporary archive file exists     *)
(*   inv    per invocation slot: the position in the code (pc), the        *)
(*          locals of gittar / downloadTar / extractTar, the requests      *)
(*          issued by the current call, and what the call returned         *)
(*   world  which inputs the calls of this behaviour draw from             *)
(***************************************************************************)
VARIABLES fs, tmp, inv, world

vars == <<fs, tmp, inv, world>>

Procs == {1, 2}

\* Identifiers: short form, tree URL with ref and subpath, Azure DevOps,
\* an unrecognized host, and an unparseable one.
U_short == <<"o", "/", "r">>

U_tree == <<"h", "t", "t", "p", "s", ":", "/", "/", "g", "i", "t", "h", "u", "b", ".",
            "c", "o", "m", "/", "o", "/", "r", "/", "t", "r", "e", "e", "/", "d", "e",
            "v", "/", "s">>

U_azure == <<"h", "t", "t", "p", "s", ":", "/", "/", "d", "e", "v", ".", "a", "z", "u",
             "r", "e", ".", "c", "o", "m", "/", "o", "/", "r">>

U_unknown == <<"h", "t", "t", "p", "s", ":", "/", "/", "e", ".", "i", "o", "/", "o", "/",
               "r">>

U_bad == <<"x">>

U_ssh == <<"g", "i", "t", "@", "g", "i", "t", "l", "a", "b", ".", "c", "o", "m", ":", "o",
           "/", "r", ".", "g", "i", "t">>

S_dev == <<"d", "e", "v">>

P_cache == <<"/", "c">>

P_out == <<"/", "o">>

P_s == <<"s">>

P_n == <<"n">>

Urls == {U_short, U_tree, U_azure, U_unknown, U_bad}

\* The identifiers downloadTar is called with.
Identifiers == Urls \cup {U_ssh}

Worlds == {"default", "cache", "out", "both"}

P_tildeO == <<"~", "/", "o">>

P_out2 == <<"/", "p">>

\* Further directory layouts: '~' forms, the empty string with and without an
\* outDir, an outDir inside cacheDir, and one cacheDir serving two outDirs.
Layouts == {"tilde", "home", "empty", "nested", "reuse"}

\* The configs of a layout: cacheDir and outDir as the layout has them, the
\* subpath absent, 's' or, in the first three, the empty string.
LayoutConfigs(w) ==
  { [url |-> u, branch |-> <<>>, cacheDir |-> c, outDir |-> o, subpath |-> s,
     update |-> up] :
      u \in {U_short, U_tree},
      c \in IF w = "tilde" THEN {<<<<"~", "/", "c">>>>}
            ELSE IF w = "home" THEN {<<S_tilde>>}
            ELSE IF w = "empty" THEN {<<<<>>>>}
            ELSE {<<P_cache>>},
      o \in IF w = "tilde" THEN {<<P_tildeO>>}
            ELSE IF w = "home" THEN {<<<<>>>>}
            ELSE IF w = "empty" THEN {<<>>, <<P_out>>}
            ELSE IF w = "nested" THEN {<<<<"/", "c", "/", "o">>>>}
            ELSE {<<P_out>>, <<P_out2>>},
      s \in IF w \in {"nested", "reuse"} THEN {<<>>, <<P_s>>}
            ELSE {<<>>, <<P_s>>, <<<<>>>>},
      up \in {"unset", "true"} }

\* The configs of two invocations that run at the same time on the default
\* cache directory of one repository, update unset.
P_up == <<".", ".">>

\* The configs of two calls in a row with the default cache location: the
\* same owner and repo named three ways, the branch absent or v2, the subpath
\* absent, missing from every tree or '..'.
TwiceConfigs ==
  { [url |-> u, branch |-> b, cacheDir |-> <<>>, outDir |-> o, subpath |-> s,
     update |-> up] :
      u \in {U_short, U_tree, U_unknown}, b \in {<<>>, <<S_v2>>},
      o \in {<<>>, <<P_out>>}, s \in {<<>>, <<P_n>>, <<P_up>>},
      up \in {"unset", "true"} }

SharedConfigs ==
  { [url |-> U_short, branch |-> <<>>, cacheDir |-> <<>>, outDir |-> o,
     subpath |-> <<>>, update |-> "unset"] : o \in {<<>>, <<P_out>>} }

\* The configs of a world: cacheDir and outDir are fixed by the world, the
\* identifier, branch, subpath and update vary from call to call.
WorldConfigs(w) ==
  IF w \in Layouts THEN LayoutConfigs(w) ELSE
  IF w = "shared" THEN SharedConfigs ELSE
  IF w = "twice" THEN TwiceConfigs ELSE
  { [url |-> u, branch |-> b,
     cacheDir |-> IF w \in {"cache", "both"} THEN <<P_cache>> ELSE <<>>,
     outDir |-> IF w \in {"out", "both"} THEN <<P_out>> ELSE <<>>,
     subpath |-> s, update |-> up] :
      u \in Urls, b \in {<<>>, <<S_dev>>}, s \in {<<>>, <<P_s>>, <<P_n>>},
      up \in {"unset", "true"} }

\* downloadTar called on its own: every identifier, with and without a branch
\* (the empty string included).
DownloadConfigs ==
  { [url |-> u, branch |-> b, cacheDir |-> <<>>, outDir |-> <<>>, subpath |-> <<>>,
     update |-> "unset"] :
      u \in Identifiers, b \in {<<>>, <<S_dev>>, <<<<>>>>} }

NoConfig == [url |-> <<>>, branch |-> <<>>, cacheDir |-> <<>>, outDir |-> <<>>,
             subpath |-> <<>>, update |-> "unset"]

NoTar == [ref |-> <<>>, from |-> 0, intact |-> FALSE, cut |-> 0]

NoOut == [kind |-> "none"]

\* An invocation slot before its first call.
Fresh(pc) ==
  [pc |-> pc, top |-> "gittar", cfg |-> NoConfig, subpath |-> <<>>, cacheDir |-> <<>>,
   outdir |-> <<>>, fromCache |-> FALSE, i |-> 0, reqs |-> <<>>, tarData |-> NoTar,
   k |-> 0, checked |-> "no", extracted |-> FALSE, out |-> NoOut, prev |-> <<>>]

EmptyFs == (<<>> :> "dir") @@ (Canon(S_home) :> "dir") @@ (Cwd :> "dir")

\* One invocation at a time: slot 2 is never used.
Init ==
  /\ fs = EmptyFs
  /\ tmp = {}
  /\ world \in Worlds
  /\ inv = [p \in Procs |-> IF p = 1 THEN Fresh("idle") ELSE Fresh("off")]

\* inv with the fields of slot p given in upd replaced.
Set(p, upd) == inv' = [inv EXCEPT ![p] = upd @@ inv[p]]

URLError(at, status, branch, cause) ==
  [kind |-> "URLError", at |-> at, status |-> status, branch |-> branch, cause |-> cause]

\* Variant: the error reaches the caller as it was thrown, not wrapped.
UnwrappedError(at) == [kind |-> "Error", at |-> at]

FSError(at) == [kind |-> "FSError", at |-> at]

\* Variant: the hit path does not set fromCache.
ResultNeverFromCache(files, me, fromCache) ==
  [kind |-> "result", files |-> files, cacheDir |-> me.cacheDir, outDir |-> me.outdir,
   subpath |-> me.subpath, fromCache |-> FALSE]

Result(files, me, fromCache) ==
  [kind |-> "result", files |-> files, cacheDir |-> me.cacheDir, outDir |-> me.outdir,
   subpath |-> me.subpath, fromCache |-> fromCache]

(***************************************************************************)
(* gittar.ts: the entry point up to its first await.                       *)
(***************************************************************************)

\* The locals a call starts with; prev keeps the files of the result before
\* it when the call repeats the config of the call that returned it.
Start(me, config) ==
  [top |-> "gittar", cfg |-> config, fromCache |-> FALSE, i |-> 0, reqs |-> <<>>,
   tarData |-> NoTar, k |-> 0, checked |-> "no", extracted |-> FALSE,
   prev |-> IF me.pc = "done" /\ me.out.kind = "result" /\ me.cfg = config
            THEN <<me.out.files>> ELSE <<>>]

\* cacheDir, outdir and the branch on config.update.
Resolved(config, parsed, cacheDir) ==
  [pc |-> IF ChecksCache(config) THEN "check" ELSE "download",
   subpath |-> EffectiveSubpath(config, parsed.subpath),
   cacheDir |-> cacheDir,
   outdir |-> ResolveOutDir(config, cacheDir),
   out |-> NoOut]

\* parseRepoInfo on the identifiers of the model, evaluated once.
RepoInfo == [u \in Urls |-> parseRepoInfo(u)]

Call(p, config) ==
  /\ inv[p].pc \in {"idle", "done"}
  /\ config \in WorldConfigs(world)
  /\ \E parsed \in {RepoInfo[config.url]} :
       IF parsed = <<>>
       THEN Set(p, [pc |-> "done", subpath |-> <<>>, cacheDir |-> <<>>, outdir |-> <<>>,
                    out |-> URLError("parse", 0, <<>>, "none")] @@ Start(inv[p], config))
       ELSE Set(p, Resolved(config, parsed[1],
                            getCacheDir(config, parsed[1].owner, parsed[1].repo))
                     @@ Start(inv[p], config))
  /\ UNCHANGED <<fs, tmp, world>>

\* gittar.ts: the cache check and, on a hit with outdir = cacheDir, the return.
CheckCache(p) ==
  /\ inv[p].pc = "check"
  /\ \E cached \in {checkCache(fs, inv[p].cacheDir, inv[p].subpath)} :
       IF cached.tag = "throw"
       THEN Set(p, [pc |-> "done", out |-> FSError("check")])
       ELSE IF cached.tag = "null"
       THEN Set(p, [pc |-> "download", checked |-> "miss"])
       ELSE IF inv[p].outdir # inv[p].cacheDir
       THEN Set(p, [pc |-> "copy", checked |-> "hit", fromCache |-> TRUE])
       ELSE Set(p, [pc |-> "done", checked |-> "hit", fromCache |-> TRUE,
                    out |-> Result(<<cached.files>>, inv[p], TRUE)])
  /\ UNCHANGED <<fs, tmp, world>>

\* gittar.ts: copyFiles(cacheDir, outdir, subpath) and the return, on the hit
\* path and after an extraction.
CopyFiles(p) ==
  /\ inv[p].pc = "copy"
  /\ \E copied \in CopyOutcomes(
                       copyFiles(fs, inv[p].cacheDir, inv[p].outdir, inv[p].subpath),
                       Canon(SubDir(inv[p].cacheDir, inv[p].subpath)),
                       Canon(inv[p].outdir)) :
       /\ fs' = copied.fsys
       /\ IF copied.tag = "throw"
          THEN Set(p, [pc |-> "done", out |-> FSError("copy")])
          ELSE Set(p, [pc |-> "done",
                       out |-> Result(<<copied.files>>, inv[p], inv[p].fromCache)])
  /\ UNCHANGED <<tmp, world>>

(***************************************************************************)
(* download.ts: downloadTar.                                               *)
(***************************************************************************)

\* Where a finished download goes: back into gittar, or to the caller.
AfterDownload(me, tarData) ==
  IF me.top = "gittar" THEN [pc |-> "extract", tarData |-> tarData]
  ELSE [pc |-> "done", tarData |-> tarData, out |-> [kind |-> "payload"]]

\* Variant: the wrapping error drops the cause.
NetworkFailureNoCause(cause) == URLError("network", 0, <<>>, "none")

\* The catch block: a URLError is rethrown, anything else is wrapped with the
\* error as cause.
NetworkFailure(cause) == URLError("network", 0, <<>>, cause)

\* The request fetch(url) issues for candidate branch; ref is the ref the URL
\* names.
Request(url, branch, ref, answer) ==
  [url |-> url, branch |-> branch, ref |-> ref, kind |-> answer.kind,
   status |-> answer.status]

\* The rest of the loop body once fetch has settled with answer.
Settle(p, me, branch, n, reqs, ref, answer) ==
  IF answer.kind = "reject"
  THEN Set(p, [pc |-> "done", reqs |-> reqs, out |-> NetworkFailure("fetch")])
  ELSE IF answer.kind = "unreadable"
  THEN Set(p, [pc |-> "done", reqs |-> reqs, out |-> NetworkFailure("arrayBuffer")])
  ELSE IF ResponseOk(answer)
  THEN Set(p, [reqs |-> reqs]
                @@ AfterDownload(me, [ref |-> <<ref>>, from |-> Len(reqs),
                                      intact |-> answer.intact, cut |-> answer.cut]))
  ELSE IF ContinuesToNext(answer.status, me.i, n)
  THEN Set(p, [i |-> me.i + 1, reqs |-> reqs])
  ELSE Set(p, [pc |-> "done", reqs |-> reqs,
               out |-> URLError("status", answer.status, <<branch>>, "request")])

\* The candidate branches downloadTar meets in the model.
CandidateBranches == {S_main, S_master, S_dev, S_v2}

\* getTarUrl(config.url, branch) for each of them, evaluated once.
TarUrls == [u \in Identifiers, b \in CandidateBranches |-> getTarUrl(u, <<b>>)]

\* The ref each of these URLs names.
TarRefs ==
  [u \in Identifiers, b \in CandidateBranches |->
     IF parseInput(u, <<b>>) = <<>> THEN <<>> ELSE parseInput(u, <<b>>)[1].ref]

\* One pass of the loop for candidate branch, n candidates in all.
TryBranch(p, me, branch, n) ==
  \E url \in {TarUrls[me.cfg.url, branch]} :
    IF url = <<>>
    THEN Set(p, [pc |-> "done", out |-> URLError("unsupported", 0, <<>>, "none")])
    ELSE \E answer \in Answers, ref \in {TarRefs[me.cfg.url, branch]} :
           Settle(p, me, branch, n,
                  Append(me.reqs, Request(url[1], branch, ref, answer)), ref, answer)

\* One pass of the loop over the candidates, with the answer the request gets;
\* past the last candidate, the trailing throw.
DownloadAttempt(p) ==
  /\ inv[p].pc = "download"
  /\ IF inv[p].i >= Len(branches(inv[p].cfg))
     THEN Set(p, [pc |-> "done", out |-> URLError("exhausted", 0, <<>>, "none")])
     ELSE TryBranch(p, inv[p], branches(inv[p].cfg)[inv[p].i + 1],
                    Len(branches(inv[p].cfg)))
  /\ UNCHANGED <<fs, tmp, world>>

(***************************************************************************)
(* extract.ts: extractTar(tarData, cacheDir), step by step.                *)
(***************************************************************************)

\* The entries tar writes for the downloaded archive.
Entries(tarData) == StripComponents(Archive(tarData.ref[1]))

\* tar fails at entry k of a damaged archive.
TarFails(tarData, k) ==
  ~tarData.intact /\ (k = tarData.cut \/ k = Len(Entries(tarData)))

\* Variant: the temporary file is never removed.
CleanupLeftOut(staged, p, removed) == (staged \ {p}) \cup {0 - p}

\* rm of the temporary file of slot p: gone when rm succeeds, left behind
\* (as -p, no longer the file of a running call) when rm fails.
Cleanup(staged, p, removed) ==
  IF removed THEN staged \ {p} ELSE (staged \ {p}) \cup {0 - p}

\* Variant: a failed extraction is reported as URLError.
ExtractFailureAsURLError(cause, removed) ==
  [cause |-> cause, removed |-> removed] @@ URLError("extract", 0, <<>>, cause)

\* The FSError of extractTar's catch block, with the error it wraps and
\* whether rm -f removed the temporary file.
ExtractFailure(cause, removed) ==
  [cause |-> cause, removed |-> removed] @@ FSError("extract")

\* mkdir -p outdir and Bun.write(tmpPath, tarData).
ExtractBegin(p) ==
  /\ inv[p].pc = "extract"
  /\ IF ~CanMkdirP(fs, Canon(inv[p].cacheDir))
     THEN /\ Set(p, [pc |-> "done", out |-> ExtractFailure("mkdir", TRUE)])
          /\ UNCHANGED <<fs, tmp>>
     ELSE /\ fs' = MkdirP(fs, Canon(inv[p].cacheDir))
          /\ tmp' = tmp \cup {p}
          /\ Set(p, [pc |-> "untar", k |-> 0])
  /\ UNCHANGED world

\* tar -xzf tmpPath -C outdir --strip-components=1, one entry at a time; a
\* damaged archive makes tar fail, and the catch block removes the temporary
\* file (rm -f, a failure of which is ignored) and throws FSError.
ExtractEntry(p) ==
  /\ inv[p].pc = "untar"
  /\ TarFails(inv[p].tarData, inv[p].k) \/ inv[p].k < Len(Entries(inv[p].tarData))
  /\ IF TarFails(inv[p].tarData, inv[p].k)
     THEN /\ \E removed \in BOOLEAN :
               /\ tmp' = Cleanup(tmp, p, removed)
               /\ Set(p, [pc |-> "done", out |-> ExtractFailure("tar", removed)])
          /\ UNCHANGED fs
     ELSE /\ \E e \in {Entries(inv[p].tarData)[inv[p].k + 1]} :
               fs' = WriteFile(fs, Canon(inv[p].cacheDir) \o e.path, e.data)
          /\ Set(p, [k |-> inv[p].k + 1])
          /\ UNCHANGED tmp
  /\ UNCHANGED world

\* rm tmpPath, the listing extractTar returns (gittar drops it), and gittar's
\* choice between copyFiles and checkCache; a failing rm throws into the catch
\* block, whose rm -f fails as well.
ExtractEnd(p) ==
  /\ inv[p].pc = "untar"
  /\ inv[p].tarData.intact
  /\ inv[p].k = Len(Entries(inv[p].tarData))
  /\ \E removed \in BOOLEAN :
       /\ tmp' = Cleanup(tmp, p, removed)
       /\ IF removed
          THEN Set(p, [pc |-> IF inv[p].outdir # inv[p].cacheDir THEN "copy" ELSE "list",
                       extracted |-> TRUE])
          ELSE Set(p, [pc |-> "done", out |-> ExtractFailure("rm", FALSE)])
  /\ UNCHANGED <<fs, world>>

\* gittar.ts: files = (await checkCache(cacheDir, subpath))! and the return;
\* the assertion is erased at run time, so null is returned as files.
ListCache(p) ==
  /\ inv[p].pc = "list"
  /\ \E cached \in {checkCache(fs, inv[p].cacheDir, inv[p].subpath)} :
       IF cached.tag = "throw"
       THEN Set(p, [pc |-> "done", out |-> FSError("check")])
       ELSE Set(p, [pc |-> "done",
                    out |-> Result(IF cached.tag = "null" THEN <<>> ELSE <<cached.files>>,
                                   inv[p], inv[p].fromCache)])
  /\ UNCHANGED <<fs, tmp, world>>

Next ==
  \E p \in Procs :
    \/ \E config \in WorldConfigs(world) : Call(p, config)
    \/ CheckCache(p)
    \/ CopyFiles(p)
    \/ DownloadAttempt(p)
    \/ ExtractBegin(p)
    \/ ExtractEntry(p)
    \/ ExtractEnd(p)
    \/ ListCache(p)

\* Sequential calls of gittar.
Spec == Init /\ [][Next]_vars

(***************************************************************************)
(* gittar under further directory layouts, with the caller deleting an     *)
(* output directory between two calls (as the tests do with rm -rf).       *)
(***************************************************************************)
InitLayouts ==
  /\ fs = EmptyFs
  /\ tmp = {}
  /\ world \in Layouts
  /\ inv = [p \in Procs |-> IF p = 1 THEN Fresh("idle") ELSE Fresh("off")]

\* rm -rf of an output directory while no call is running.
RemoveOutDir(dir) ==
  /\ world = "reuse"
  /\ \A p \in Procs : inv[p].pc \in {"idle", "done", "off"}
  /\ Exists(fs, Canon(dir))
  /\ fs' = [q \in {e \in DOMAIN fs : ~IsPrefix(Canon(dir), e)} |-> fs[q]]
  /\ UNCHANGED <<inv, tmp, world>>

NextLayouts ==
  \/ Next
  \/ \E dir \in {P_out, P_out2} : RemoveOutDir(dir)

SpecLayouts == InitLayouts /\ [][NextLayouts]_vars

(***************************************************************************)
(* Two invocations of gittar running at the same time, each called once:   *)
(* every await of the one may be followed by steps of the other.           *)
(***************************************************************************)
InitShared ==
  /\ fs = EmptyFs
  /\ tmp = {}
  /\ world = "shared"
  /\ inv = [p \in Procs |-> Fresh("idle")]

NextShared ==
  \E p \in Procs :
    \/ \E config \in WorldConfigs(world) : inv[p].pc = "idle" /\ Call(p, config)
    \/ CheckCache(p)
    \/ CopyFiles(p)
    \/ DownloadAttempt(p)
    \/ ExtractBegin(p)
    \/ ExtractEntry(p)
    \/ ExtractEnd(p)
    \/ ListCache(p)

SpecShared == InitShared /\ [][NextShared]_vars

(***************************************************************************)
(* Two calls of gittar in a row on an empty disk: slot 1 is the first      *)
(* call (into the default directories, update unset), slot 2 the call that *)
(* follows once the first has returned or thrown.                          *)
(***************************************************************************)
InitTwice ==
  /\ fs = EmptyFs
  /\ tmp = {}
  /\ world = "twice"
  /\ inv = [p \in Procs |-> Fresh("idle")]

NextTwice ==
  \E p \in Procs :
    \/ \E config \in WorldConfigs(world) :
         /\ inv[p].pc = "idle"
         /\ IF p = 1 THEN config.update = "unset" /\ config.outDir = <<>>
            ELSE inv[1].pc = "done"
         /\ Call(p, config)
    \/ CheckCache(p)
    \/ CopyFiles(p)
    \/ DownloadAttempt(p)
    \/ ExtractBegin(p)
    \/ ExtractEntry(p)
    \/ ExtractEnd(p)
    \/ ListCache(p)

SpecTwice == InitTwice /\ [][NextTwice]_vars

(***************************************************************************)
(* downloadTar called directly (as its tests do), once per behaviour.      *)
(***************************************************************************)
InitDownload ==
  /\ fs = EmptyFs
  /\ tmp = {}
  /\ world = "download"
  /\ \E config \in DownloadConfigs :
       inv = [p \in Procs |->
                IF p = 1
                THEN [pc |-> "download", top |-> "downloadTar", cfg |-> config]
                       @@ Fresh("download")
                ELSE Fresh("off")]

NextDownload == \E p \in Procs : DownloadAttempt(p)

SpecDownload == InitDownload /\ [][NextDownload]_vars

\* Every request is answered or fails: fetch settles.
FairSpecDownload == SpecDownload /\ WF_vars(NextDownload)

(***************************************************************************)
(* Properties of gittar (Spec).                                            *)
(***************************************************************************)

\* The call of slot p has returned or thrown.
Done(p) == inv[p].pc = "done"

\* The call of slot p returned a result.
Returned(p) == Done(p) /\ inv[p].out.kind = "result"

\* C1: cache idempotence: when a call with update not true returned a result
\* and the next call has the identical config, that call returns a result,
\* issues no HTTP request, reports fromCache = true and returns the same files.
CacheIdempotence ==
  \A p \in Procs :
    (Done(p) /\ inv[p].prev # <<>> /\ inv[p].cfg.update # "true")
      => /\ inv[p].out.kind = "result"
         /\ inv[p].reqs = <<>>
         /\ inv[p].out.fromCache
         /\ inv[p].out.files = inv[p].prev[1]

\* C2: a call with update = true never takes the cache-hit path, whatever the
\* cache holds: the cache is not consulted, fromCache stays false, and a result
\* comes only after at least one HTTP request, the last one answered 2xx.
UpdateBypassesCache ==
  \A p \in Procs :
    (inv[p].top = "gittar" /\ inv[p].cfg.update = "true")
      => /\ inv[p].checked = "no"
         /\ ~inv[p].fromCache
         /\ Returned(p)
              => /\ inv[p].reqs # <<>>
                 /\ ResponseOk(inv[p].reqs[Len(inv[p].reqs)])
                 /\ ~inv[p].out.fromCache

\* A call with update = true returned a result although the cache was complete
\* (the call before it, with the same config, had returned one).
UpdateWithFullCache ==
  \E p \in Procs : Returned(p) /\ inv[p].cfg.update = "true" /\ inv[p].prev # <<>>

\* The cache check of slot p is about to run with a subpath in effect, cacheDir
\* a directory and cacheDir/subpath not existing.
SubpathMissing(p) ==
  /\ inv[p].pc = "check"
  /\ Truthy(inv[p].subpath)
  /\ IsDir(fs, Canon(inv[p].cacheDir))
  /\ ~Exists(fs, Canon(SubDir(inv[p].cacheDir, inv[p].subpath)))

\* Every entry of the archive the call downloaded is in cacheDir.
WholeArchiveCached(p) ==
  \A i \in 1..Len(Entries(inv[p].tarData)) :
    LET q == Canon(inv[p].cacheDir) \o Entries(inv[p].tarData)[i].path
    IN  Exists(fs, q) /\ fs[q] = Entries(inv[p].tarData)[i].data

\* A call whose cache check missed never reports fromCache = true, and returns
\* only after a request and the extraction of the whole archive.
MissIsFull ==
  \A p \in Procs :
    inv[p].checked = "miss"
      => /\ ~inv[p].fromCache
         /\ Returned(p)
              => /\ ~inv[p].out.fromCache
                 /\ inv[p].reqs # <<>>
                 /\ inv[p].extracted
                 /\ WholeArchiveCached(p)

\* C3: with update unset and a subpath in effect, when cacheDir exists and
\* cacheDir/subpath does not, the cache check is a miss and the call goes on to
\* download; a call that missed downloads and extracts the whole archive and
\* never returns fromCache = true.
MissingSubpathIsFullMiss ==
  /\ [][\A p \in Procs :
          SubpathMissing(p)
            => /\ inv'[p].pc = "download"
               /\ inv'[p].checked = "miss"
               /\ ~inv'[p].fromCache]_vars
  /\ []MissIsFull

\* The cache lookup has just missed on a missing subpath under an existing cacheDir.
MissedOnSubpath ==
  \E p \in Procs :
    /\ inv[p].pc = "download"
    /\ inv[p].checked = "miss"
    /\ inv[p].reqs = <<>>
    /\ Truthy(inv[p].subpath)
    /\ IsDir(fs, Canon(inv[p].cacheDir))
    /\ ~Exists(fs, Canon(SubDir(inv[p].cacheDir, inv[p].subpath)))

\* The identifier parses to owner/repo and its host is Azure DevOps or matches
\* no known platform.
UnsupportedHost(url) ==
  /\ parseInput(url, <<>>) # <<>>
  /\ detectPlatform(parseInput(url, <<>>)[1].hostname) \in {"null", "azure"}

\* C10 as stated: for an identifier that parses but whose host is Azure DevOps
\* or unknown, every call of gittar ends in URLError.
UnsupportedAlwaysFails ==
  \A p \in Procs :
    (inv[p].top = "gittar" /\ Done(p) /\ UnsupportedHost(inv[p].cfg.url))
      => inv[p].out.kind = "URLError"

\* C10 amended: for such an identifier gittar issues no request; it fails with
\* URLError whenever update is true or the cache check misses, and returns a
\* result only from a cache hit (update not true), with fromCache = true.
UnsupportedFailsUnlessCached ==
  \A p \in Procs :
    (inv[p].top = "gittar" /\ UnsupportedHost(inv[p].cfg.url))
      => /\ inv[p].reqs = <<>>
         /\ (Done(p) /\ (inv[p].cfg.update = "true" \/ inv[p].checked = "miss"))
              => /\ inv[p].out.kind = "URLError"
                 /\ inv[p].out.at = "unsupported"
         /\ Returned(p)
              => /\ inv[p].cfg.update # "true"
                 /\ inv[p].checked = "hit"
                 /\ inv[p].out.fromCache

\* A call with update = true for an Azure DevOps or unknown host failed with
\* URLError although cacheDir exists.
UnsupportedFailsOverCache ==
  \E p \in Procs :
    /\ Done(p)
    /\ UnsupportedHost(inv[p].cfg.url)
    /\ inv[p].cfg.update = "true"
    /\ inv[p].out.kind = "URLError"
    /\ IsDir(fs, Canon(inv[p].cacheDir))

(***************************************************************************)
(* Properties of downloadTar (SpecDownload, FairSpecDownload).             *)
(***************************************************************************)

\* Request j of slot p was answered with status st.
Answered(p, j, st) ==
  /\ j \in 1..Len(inv[p].reqs)
  /\ inv[p].reqs[j].kind = "response"
  /\ inv[p].reqs[j].status = st

\* C4: with no config.branch, once the request for ref main is answered 404 the
\* request for ref master is the next and last one (exactly two requests, in
\* that order), and when it is answered 2xx downloadTar returns its payload.
MainThenMaster ==
  \A p \in Procs :
    (/\ inv[p].top = "downloadTar"
     /\ ~Truthy(inv[p].cfg.branch)
     /\ Answered(p, 1, 404)
     /\ inv[p].reqs[1].ref = S_main)
      => \/ /\ inv[p].pc = "download"
            /\ inv[p].i = 1
            /\ Len(inv[p].reqs) = 1
         \/ /\ Done(p)
            /\ Len(inv[p].reqs) = 2
            /\ inv[p].reqs[2].branch = S_master
            /\ inv[p].reqs[2].ref = S_master
            /\ inv[p].reqs[2].url # inv[p].reqs[1].url
            /\ (inv[p].reqs[2].kind = "response" /\ ResponseOk(inv[p].reqs[2]))
                 => /\ inv[p].out.kind = "payload"
                    /\ inv[p].tarData.from = 2
                    /\ inv[p].tarData.ref = <<S_master>>

\* main was answered 404, master 2xx, and the payload of master was returned.
FellBackToMaster ==
  \E p \in Procs :
    /\ Done(p)
    /\ ~Truthy(inv[p].cfg.branch)
    /\ Answered(p, 1, 404)
    /\ inv[p].reqs[1].ref = S_main
    /\ Answered(p, 2, 200)
    /\ inv[p].out.kind = "payload"

\* C5: with config.branch supplied (a non-empty branch name), a 404 answer ends
\* downloadTar with URLError after exactly one request, the one for that
\* branch; no request for main or master is issued.
BranchNoFallback ==
  \A p \in Procs :
    (/\ inv[p].top = "downloadTar"
     /\ Truthy(inv[p].cfg.branch)
     /\ Answered(p, 1, 404))
      => /\ Done(p)
         /\ inv[p].out.kind = "URLError"
         /\ inv[p].out.status = 404
         /\ Len(inv[p].reqs) = 1
         /\ inv[p].reqs[1].branch = inv[p].cfg.branch[1]
         /\ \A j \in 1..Len(inv[p].reqs) : inv[p].reqs[j].branch \notin {S_main, S_master}

\* The supplied branch was answered 404 and downloadTar threw.
BranchNotFound ==
  \E p \in Procs :
    /\ Done(p)
    /\ inv[p].cfg.branch = <<S_dev>>
    /\ Answered(p, 1, 404)
    /\ inv[p].out.kind = "URLError"

\* C6: a response with a non-2xx status other than 404, on any candidate, is
\* the last request of the call: downloadTar ends with the URLError of that
\* status and no later candidate is requested.
OtherStatusIsTerminal ==
  \A p \in Procs : \A j \in 1..Len(inv[p].reqs) :
    (/\ inv[p].top = "downloadTar"
     /\ inv[p].reqs[j].kind = "response"
     /\ ~ResponseOk(inv[p].reqs[j])
     /\ inv[p].reqs[j].status # 404)
      => /\ j = Len(inv[p].reqs)
         /\ Done(p)
         /\ inv[p].out.kind = "URLError"
         /\ inv[p].out.at = "status"
         /\ inv[p].out.status = inv[p].reqs[j].status

\* main was answered 500 with master still untried, and downloadTar threw.
ServerErrorOnMain ==
  \E p \in Procs :
    /\ Done(p)
    /\ ~Truthy(inv[p].cfg.branch)
    /\ Len(inv[p].reqs) = 1
    /\ Answered(p, 1, 500)
    /\ inv[p].reqs[1].ref = S_main
    /\ inv[p].out.kind = "URLError"

\* C7: a request whose fetch rejects is the last request of the call:
\* downloadTar ends with a URLError whose cause is the error fetch rejected
\* with, and no later candidate is requested.
NetworkErrorIsTerminal ==
  \A p \in Procs : \A j \in 1..Len(inv[p].reqs) :
    (inv[p].top = "downloadTar" /\ inv[p].reqs[j].kind = "reject")
      => /\ j = Len(inv[p].reqs)
         /\ Done(p)
         /\ inv[p].out.kind = "URLError"
         /\ inv[p].out.at = "network"
         /\ inv[p].out.cause = "fetch"

\* The fetch for main rejected with master still untried, and downloadTar
\* threw.
FetchRejectedOnMain ==
  \E p \in Procs :
    /\ Done(p)
    /\ ~Truthy(inv[p].cfg.branch)
    /\ Len(inv[p].reqs) = 1
    /\ inv[p].reqs[1].kind = "reject"
    /\ inv[p].out.kind = "URLError"

\* The candidates of the call of slot p: one when a branch is supplied, else two.
Candidates(p) == IF Truthy(inv[p].cfg.branch) THEN 1 ELSE 2

\* Every request of the call of slot p was answered 404.
AllNotFound(p) == \A j \in 1..Len(inv[p].reqs) : Answered(p, j, 404)

\* downloadTar issues at most one request per candidate, ends with a payload
\* or a URLError that is not the trailing throw, and after 404 on every
\* candidate ends with the URLError of the last candidate's status.
DownloadBounded ==
  \A p \in Procs :
    inv[p].top = "downloadTar"
      => /\ Len(branches(inv[p].cfg)) = Candidates(p)
         /\ Len(inv[p].reqs) <= Candidates(p)
         /\ Done(p)
              => /\ inv[p].out.kind \in {"payload", "URLError"}
                 /\ inv[p].out.kind = "URLError" => inv[p].out.at # "exhausted"
         /\ (Done(p) /\ Len(inv[p].reqs) = Candidates(p) /\ AllNotFound(p))
              => /\ inv[p].out.kind = "URLError"
                 /\ inv[p].out.at = "status"
                 /\ inv[p].out.status = 404
                 /\ inv[p].out.branch = <<inv[p].reqs[Candidates(p)].branch>>

\* C8: downloadTar always ends, after at most as many requests as it has
\* candidates (1 with a branch supplied, 2 otherwise), with a payload or a
\* URLError; when every candidate is answered 404 the URLError carries the
\* status of the last candidate, and the trailing throw is never reached.
DownloadTerminates ==
  /\ []DownloadBounded
  /\ <>(\A p \in Procs : inv[p].top = "downloadTar" => Done(p))

\* main and master were both answered 404 and downloadTar threw.
AllCandidatesNotFound ==
  \E p \in Procs :
    /\ Done(p)
    /\ Len(inv[p].reqs) = 2
    /\ AllNotFound(p)
    /\ inv[p].out.kind = "URLError"

\* The identifier does not parse, or its host is Azure DevOps or matches no
\* known platform.
Unresolvable(url) == parseInput(url, <<>>) = <<>> \/ UnsupportedHost(url)

\* C9: for an identifier that is unparseable or whose host is unrecognized or
\* Azure DevOps, getTarUrl yields null and downloadTar throws URLError on the
\* first candidate: no HTTP request is issued and no further candidate tried.
NoUrlNoRequest ==
  \A p \in Procs :
    (inv[p].top = "downloadTar" /\ Unresolvable(inv[p].cfg.url))
      => /\ getTarUrl(inv[p].cfg.url, <<branches(inv[p].cfg)[1]>>) = <<>>
         /\ inv[p].reqs = <<>>
         /\ inv[p].i = 0
         /\ Done(p)
              => /\ inv[p].out.kind = "URLError"
                 /\ inv[p].out.at = "unsupported"

\* downloadTar threw for an unrecognized host with two candidates.
UnknownHostRejected ==
  \E p \in Procs :
    /\ Done(p)
    /\ inv[p].cfg.url = U_unknown
    /\ ~Truthy(inv[p].cfg.branch)
    /\ inv[p].out.kind = "URLError"
    /\ inv[p].reqs = <<>>


\* Every file of the archive the call downloaded is in its cacheDir, below the
\* path it has in the archive without the root component.
CacheHoldsArchive(p) ==
  \A e \in Range(Archive(inv[p].tarData.ref[1])) :
    Len(e.path) > 1 =>
      /\ IsFile(fs, Canon(inv[p].cacheDir) \o Tail(e.path))
      /\ fs[Canon(inv[p].cacheDir) \o Tail(e.path)] = e.data

\* C11: after every call that returned a result with fromCache = false,
\* cacheDir contains every file of the downloaded archive with its root
\* component stripped, whatever the effective subpath and outDir are.
MissFillsWholeCache ==
  \A p \in Procs :
    (Returned(p) /\ ~inv[p].out.fromCache) => CacheHoldsArchive(p)

\* A miss-path result with a subpath in effect and an outDir of its own.
MissWithSubpathAndOutDir ==
  \E p \in Procs :
    /\ Returned(p) /\ ~inv[p].out.fromCache
    /\ Truthy(inv[p].subpath)
    /\ inv[p].outdir # inv[p].cacheDir

\* The files below dir with their contents.
FilesUnder(fsys, dir) ==
  [q \in {f \in Below(fsys, Canon(dir)) : IsFile(fsys, f)} |-> fsys[q]]

\* A step of a call on the cache-hit path that does not end in an error.
HitStep(p) ==
  /\ inv[p].pc \in {"check", "copy"}
  /\ inv'[p].fromCache
  /\ inv'[p].pc \in {"copy", "done"}
  /\ inv'[p].pc = "done" => inv'[p].out.kind = "result"

\* Neither directory is the other or lies inside it.
Apart(dir, other) ==
  /\ ~IsPrefix(Canon(dir), Canon(other))
  /\ ~IsPrefix(Canon(other), Canon(dir))

\* C12 as stated: a call answered from cache leaves the files under cacheDir
\* and their contents unchanged, for every subpath and every outDir.
HitLeavesCacheUnchanged ==
  [][\A p \in Procs :
       HitStep(p) =>
         FilesUnder(fs', inv[p].cacheDir) = FilesUnder(fs, inv[p].cacheDir)]_vars

\* C12: a call answered from cache leaves the files under cacheDir and their
\* contents unchanged, for every subpath and every outDir that neither lies
\* inside cacheDir nor contains it.
HitLeavesCacheUnchangedApart ==
  [][\A p \in Procs :
       (HitStep(p) /\ Apart(inv[p].outdir, inv[p].cacheDir)) =>
         FilesUnder(fs', inv[p].cacheDir) = FilesUnder(fs, inv[p].cacheDir)]_vars

\* A cache hit copied a subpath into an outDir apart from cacheDir.
HitCopiedSubpathApart ==
  \E p \in Procs :
    /\ Returned(p) /\ inv[p].out.fromCache
    /\ Truthy(inv[p].subpath)
    /\ inv[p].outdir # inv[p].cacheDir
    /\ Apart(inv[p].outdir, inv[p].cacheDir)

\* The paths p of the files cacheDir/S/p of a call with subpath S in effect,
\* relative to cacheDir/S.
UnderSubpath(p) ==
  { Drop(f, Len(Canon(SubDir(inv[p].cacheDir, inv[p].subpath)))) :
      f \in {q \in Below(fs, Canon(SubDir(inv[p].cacheDir, inv[p].subpath))) :
               IsFile(fs, q)} }

\* The call returned a list of files with a subpath in effect.
ReturnedUnderSubpath(p) ==
  Returned(p) /\ Truthy(inv[p].subpath) /\ inv[p].out.files # <<>>

\* C13 as stated: with a subpath S in effect each file cacheDir/S/p is
\* reported as {result.outDir}/p, whether outDir is configured or defaults
\* to cacheDir.
SubpathFilesAtOutputRoot ==
  \A p \in Procs :
    ReturnedUnderSubpath(p) =>
      \A rel \in UnderSubpath(p) :
        inv[p].out.outDir \o S_slash \o Join(rel, S_slash)
          \in Range(inv[p].out.files[1])

\* C13: with a subpath S in effect each file cacheDir/S/p that is not hidden
\* is reported as {result.outDir}/p when outDir differs from cacheDir, and as
\* cacheDir/S/p, the S prefix kept, when outDir defaults to cacheDir.
SubpathFilesReported ==
  \A p \in Procs :
    ReturnedUnderSubpath(p) =>
      \A rel \in {r \in UnderSubpath(p) : ~IsHidden(r)} :
        (IF inv[p].out.outDir # inv[p].out.cacheDir
         THEN inv[p].out.outDir
         ELSE SubDir(inv[p].out.cacheDir, inv[p].subpath))
           \o S_slash \o Join(rel, S_slash)
          \in Range(inv[p].out.files[1])

\* A subpath listed with outDir defaulting to cacheDir.
SubpathListedInCache ==
  \E p \in Procs :
    /\ ReturnedUnderSubpath(p)
    /\ inv[p].out.outDir = inv[p].out.cacheDir
    /\ Len(inv[p].out.files[1]) > 0

\* C14: when outDir differs from cacheDir, result.files is exactly the set of
\* destination paths of the files copied in this call from cacheDir (from
\* cacheDir/subpath with a subpath in effect), hidden files apart: no path of
\* a file that was in outDir before and is not in the filtered cache set.
FilesAreThisCallsCopies ==
  \A p \in Procs :
    (Returned(p) /\ inv[p].out.files # <<>> /\ inv[p].out.outDir # inv[p].out.cacheDir) =>
      Range(inv[p].out.files[1]) =
        { inv[p].out.outDir \o S_slash \o Join(rel, S_slash) :
            rel \in {r \in UnderSubpath(p) : ~IsHidden(r)} }

\* C15: the effective subpath (the filter of the call and result.subpath) is
\* config.subpath whenever that is supplied, the empty string included, and
\* the subpath of the URL only when config.subpath is absent.
SuppliedSubpathWins ==
  \A p \in Procs :
    (inv[p].pc \notin {"idle", "off"} /\ RepoInfo[inv[p].cfg.url] # <<>>) =>
      /\ inv[p].subpath = IF inv[p].cfg.subpath # <<>> THEN inv[p].cfg.subpath
                          ELSE RepoInfo[inv[p].cfg.url][1].subpath
      /\ Returned(p) => inv[p].out.subpath = inv[p].subpath

\* outDir is a directory of fsys holding a copy of every file of the cache
\* directory the call filters to.
CopiedInto(fsys, me) ==
  /\ IsDir(fsys, Canon(me.outdir))
  /\ \A f \in {q \in Below(fsys, Canon(SubDir(me.cacheDir, me.subpath))) :
                 IsFile(fsys, q)} :
       /\ IsFile(fsys, Canon(me.outdir)
                         \o Drop(f, Len(Canon(SubDir(me.cacheDir, me.subpath)))))
       /\ fsys[Canon(me.outdir)
                 \o Drop(f, Len(Canon(SubDir(me.cacheDir, me.subpath))))] = fsys[f]

\* The step that ends the copy of a cache hit.
HitCopyStep(p) ==
  inv[p].pc = "copy" /\ inv[p].fromCache /\ inv'[p].pc = "done"

\* The call ended with a result from cache, without a request, outDir filled.
ServedFromCache(p) ==
  /\ inv'[p].out.kind = "result" /\ inv'[p].out.fromCache
  /\ inv'[p].reqs = <<>>
  /\ CopiedInto(fs', inv[p])

Resolving(p) ==
  inv[p].pc \notin {"idle", "off"} /\ RepoInfo[inv[p].cfg.url] # <<>>

OnlyOutDirSupplied(p) ==
  Resolving(p) /\ Truthy(inv[p].cfg.outDir) /\ inv[p].cfg.cacheDir = <<>>

\* {home}/.cache/hulla/gittar/{owner}/{repo} of the call's identifier.
DefaultCacheDir(p) ==
  S_home \o <<"/", ".", "c", "a", "c", "h", "e", "/">>
         \o <<"h", "u", "l", "l", "a", "/", "g", "i", "t", "t", "a", "r", "/">>
         \o RepoInfo[inv[p].cfg.url][1].owner \o S_slash
         \o RepoInfo[inv[p].cfg.url][1].repo

TildeExpanded(path) ==
  IF path = <<"~">> THEN S_home
  ELSE IF Len(path) >= 2 /\ path[1] = "~" /\ path[2] = "/"
  THEN S_home \o SubSeq(path, 2, Len(path))
  ELSE path

\* The option is a non-empty string.
NonEmptyString(opt) == opt # <<>> /\ Len(opt[1]) > 0

HasRefInPath(url) ==
  \E marker \in BranchMarkers : Includes(url, S_slash \o marker \o S_slash)

\* Request j of downloadTar went to the tarball URL of the candidate it was
\* issued for.
RequestForCandidate(p, j) ==
  /\ inv[p].reqs[j].ref = inv[p].reqs[j].branch
  /\ Includes(inv[p].reqs[j].url, inv[p].reqs[j].branch)
  /\ Truthy(inv[p].cfg.branch) => inv[p].reqs[j].ref = inv[p].cfg.branch[1]
  /\ j > 1 => inv[p].reqs[j].url # inv[p].reqs[j - 1].url

\* Request j of downloadTar went to the tarball URL of the ref in the path of
\* the identifier, as the request before it did.
RequestForRefInPath(p, j) ==
  /\ Includes(inv[p].cfg.url, S_slash \o inv[p].reqs[j].ref)
  /\ Includes(inv[p].reqs[j].url, inv[p].reqs[j].ref)
  /\ j > 1 => inv[p].reqs[j].url = inv[p].reqs[j - 1].url

\* C20 as stated: for every identifier and every candidate ref c downloadTar
\* tries, the request issued for c goes to the tarball URL for ref c: a
\* supplied config.branch is the ref downloaded, and the main and master
\* attempts go to two different URLs.
RequestsFollowCandidates ==
  \A p \in Procs :
    inv[p].top = "downloadTar" =>
      \A j \in 1..Len(inv[p].reqs) : RequestForCandidate(p, j)

\* C20: for every identifier without a ref in its path the request issued
\* for candidate c goes to the tarball URL for ref c (a supplied non-empty
\* config.branch is the ref downloaded, main and master go to different
\* URLs); for an identifier with a ref in its path every request goes to the
\* tarball URL of that ref, whatever the candidate.
RequestsFollowCandidatesOrPath ==
  \A p \in Procs :
    inv[p].top = "downloadTar" =>
      \A j \in 1..Len(inv[p].reqs) :
        IF HasRefInPath(inv[p].cfg.url)
        THEN RequestForRefInPath(p, j)
        ELSE RequestForCandidate(p, j)

\* The main and the master attempt for a tree URL went to the same URL.
SameUrlRequestedTwice ==
  \E p \in Procs :
    /\ inv[p].top = "downloadTar"
    /\ HasRefInPath(inv[p].cfg.url)
    /\ Len(inv[p].reqs) = 2
    /\ inv[p].reqs[1].branch = S_main /\ inv[p].reqs[2].branch = S_master
    /\ inv[p].reqs[1].url = inv[p].reqs[2].url

\* No step of the call that returned failed: a hit issued no request; a miss
\* asked each candidate once, got 404 for all but the last and 2xx for that,
\* and unpacked an intact archive to its end.
NoStepFailed(p) ==
  IF inv[p].out.fromCache
  THEN inv[p].checked = "hit" /\ inv[p].reqs = <<>>
  ELSE /\ Len(inv[p].reqs) >= 1
       /\ \A j \in 1..Len(inv[p].reqs) :
            /\ inv[p].reqs[j].kind = "response"
            /\ IF j = Len(inv[p].reqs) THEN ResponseOk(inv[p].reqs[j])
               ELSE inv[p].reqs[j].status = 404
            /\ \A l \in 1..(j - 1) : inv[p].reqs[l].branch # inv[p].reqs[j].branch
       /\ inv[p].tarData.intact /\ inv[p].extracted

\* The error names the step that failed last, and nothing came after it.
FailedStepSurfaced(p) ==
  \/ /\ inv[p].out.kind = "URLError"
     /\ \/ inv[p].out.at \in {"parse", "unsupported"} /\ ~inv[p].extracted
        \/ /\ inv[p].out.at = "status"
           /\ inv[p].reqs[Len(inv[p].reqs)].kind = "response"
           /\ ~ResponseOk(inv[p].reqs[Len(inv[p].reqs)])
           /\ ~inv[p].extracted
        \/ /\ inv[p].out.at = "network"
           /\ inv[p].reqs[Len(inv[p].reqs)].kind \in {"reject", "unreadable"}
           /\ ~inv[p].extracted
  \/ /\ inv[p].out.kind = "FSError"
     /\ inv[p].out.at \in {"check", "extract", "copy"}
     /\ inv[p].out.at = "check" /\ ~inv[p].extracted => inv[p].reqs = <<>>
     /\ inv[p].out.at = "extract" => ~inv[p].extracted

ExtractFinishes(p) ==
  inv[p].pc \in {"extract", "untar"} /\ inv'[p].pc \notin {"extract", "untar"}

\* The step leaves the temporary file of the call behind.
LeavesTempFile(p) == p \in tmp' \/ ((0 - p) \in tmp' /\ (0 - p) \notin tmp)

\* extractTar throws an FSError whose cause is the error of the command that
\* failed: mkdir, tar on a damaged archive, or rm after a full extraction.
ThrowsOriginalCause(p) ==
  /\ inv'[p].pc = "done"
  /\ inv'[p].out.kind = "FSError" /\ inv'[p].out.at = "extract"
  /\ \/ inv'[p].out.cause = "mkdir" /\ ~CanMkdirP(fs, Canon(inv[p].cacheDir))
     \/ inv'[p].out.cause = "tar" /\ ~inv[p].tarData.intact
     \/ /\ inv'[p].out.cause = "rm" /\ inv[p].tarData.intact
        /\ inv[p].k = Len(Entries(inv[p].tarData))

\* C22 as stated: when extractTar finishes, returning or throwing, the
\* temporary file it staged no longer exists, and a failure surfaces as an
\* FSError wrapping the original cause even when the cleanup fails.
TempFileAlwaysRemoved ==
  [][\A p \in Procs :
       ExtractFinishes(p) =>
         /\ ~LeavesTempFile(p)
         /\ inv'[p].pc = "done" => ThrowsOriginalCause(p)]_vars

\* C22: when extractTar returns, the temporary file it staged no longer
\* exists; when it throws, the file is gone unless removing it failed, and
\* the error is an FSError wrapping the original cause whether or not the
\* cleanup failed.
TempFileRemovedBestEffort ==
  [][\A p \in Procs :
       ExtractFinishes(p) =>
         IF inv'[p].pc = "done"
         THEN /\ ThrowsOriginalCause(p)
              /\ LeavesTempFile(p) => ~inv'[p].out.removed
         ELSE ~LeavesTempFile(p)]_vars

\* tar failed, the cleanup failed too, and the caller got the tar failure.
CleanupFailedAfterTarFailed ==
  \E p \in Procs :
    /\ Done(p) /\ inv[p].out.kind = "FSError" /\ inv[p].out.at = "extract"
    /\ inv[p].out.cause = "tar" /\ ~inv[p].out.removed
    /\ (0 - p) \in tmp

\* The listing of a cache directory that holds the whole archive of ref main:
\* the paths of its files that are not hidden.
WholeListing(cacheDir) ==
  { cacheDir \o S_slash \o Join(Tail(e.path), S_slash) :
      e \in {a \in Range(Archive(S_main)) : Len(a.path) > 1 /\ ~IsHidden(Tail(a.path))} }

\* The cache check of slot p ends in this step as a hit on its own cacheDir
\* with a strict subset of the archive's files.
PartialHitStep(p) ==
  /\ inv[p].pc = "check" /\ inv'[p].pc = "done"
  /\ inv'[p].out.kind = "result" /\ inv'[p].out.fromCache
  /\ Range(inv'[p].out.files[1]) \subseteq WholeListing(inv[p].cacheDir)
  /\ Range(inv'[p].out.files[1]) # WholeListing(inv[p].cacheDir)

\* C23: with two invocations on the same cacheDir and update unset, an
\* invocation whose cache check hits while the extraction of the other is in
\* progress returns fromCache = true with a strict subset of the archive's
\* files; a hit lists less than the archive only when the extraction of the
\* other invocation is in progress or has failed.
PartialHitOnlyDuringExtraction ==
  [][\A p \in Procs :
       PartialHitStep(p) =>
         \E q \in Procs \ {p} :
           /\ inv[q].cacheDir = inv[p].cacheDir
           /\ \/ inv[q].pc = "untar"
              \/ Done(q) /\ inv[q].out.kind = "FSError" /\ inv[q].out.at = "extract"]_vars

\* One invocation returned from cache a strict subset of the archive's files
\* while the other is still extracting into the same cacheDir.
ReadPartialExtraction ==
  \E p \in Procs : \E q \in Procs \ {p} :
    /\ Returned(p) /\ inv[p].out.fromCache /\ inv[p].reqs = <<>>
    /\ inv[p].cfg.update = "unset" /\ inv[q].cfg.update = "unset"
    /\ inv[q].pc = "untar" /\ inv[q].tarData.intact
    /\ inv[q].cacheDir = inv[p].cacheDir
    /\ Range(inv[p].out.files[1]) \subseteq WholeListing(inv[p].cacheDir)
    /\ Range(inv[p].out.files[1]) # WholeListing(inv[p].cacheDir)
    /\ Range(inv[p].out.files[1]) # {}

\* Slot p is past its download on the miss path.
PastDownload(p) ==
  \/ inv[p].pc \in {"extract", "untar", "list"}
  \/ inv[p].pc = "copy" /\ ~inv[p].fromCache
  \/ Returned(p) /\ ~inv[p].out.fromCache

\* C24: no at-most-once download per cache key: of two invocations with
\* identical config and update unset started on an absent cache, each that
\* misses the cache downloads and extracts for itself (its own request was
\* answered 2xx and its payload is what it extracts), whatever the other does.
EveryMissDownloads ==
  \A p \in Procs :
    PastDownload(p) =>
      /\ inv[p].checked = "miss"
      /\ Len(inv[p].reqs) >= 1
      /\ inv[p].reqs[Len(inv[p].reqs)].kind = "response"
      /\ inv[p].reqs[Len(inv[p].reqs)].status \in 200..299
      /\ inv[p].tarData.from = Len(inv[p].reqs)

\* Both invocations, with the same config, missed the cache, downloaded, and
\* are extracting into the same cacheDir.
BothExtracting ==
  /\ inv[1].cfg = inv[2].cfg /\ inv[1].cfg.update = "unset"
  /\ inv[1].cacheDir = inv[2].cacheDir
  /\ \A p \in Procs :
       /\ inv[p].pc = "untar" /\ inv[p].checked = "miss"
       /\ Len(inv[p].reqs) >= 1 /\ p \in tmp

(***************************************************************************)
(* parseInput and getTarUrl as functions of their two arguments: each      *)
(* behaviour picks one call, with an input and an override from the sets   *)
(* below, and makes it.  Beside a call of parseInput on an SSH form, a     *)
(* second call parses the same text with '.git' appended.                  *)
(***************************************************************************)

\* The longest list of path segments an input is built from.
MaxSegs == 6

\* Path texts: segments, empty ones included, joined by '/'.
Paths ==
  {Join(segs, S_slash) :
     segs \in UNION {[1..k -> {<<>>, <<"o">>, <<"t", "r", "e", "e">>}] : k \in 0..MaxSegs}}

\* github.com, GitLab.com, gitea.io:3000, bitbucket.org, codeberg.org,
\* forgejo.dev.azure.com, forgejo.x, gitlab.github.x, e.io and the empty host
\* text.
Hosts == {<<"g", "i", "t", "h", "u", "b", ".", "c", "o", "m">>, <<"G", "i", "t", "L", "a", "b", ".", "c", "o", "m">>, <<"g", "i", "t", "e", "a", ".", "i", "o", ":", "3", "0", "0", "0">>, <<"b", "i", "t", "b", "u", "c", "k", "e", "t", ".", "o", "r", "g">>, <<"c", "o", "d", "e", "b", "e", "r", "g", ".", "o", "r", "g">>,
          <<"f", "o", "r", "g", "e", "j", "o", ".", "d", "e", "v", ".", "a", "z", "u", "r", "e", ".", "c", "o", "m">>, <<"f", "o", "r", "g", "e", "j", "o", ".", "x">>, <<"g", "i", "t", "l", "a", "b", ".", "g", "i", "t", "h", "u", "b", ".", "x">>, <<"e", ".", "i", "o">>, <<>>}

\* Short forms, full URLs of one host with every path, URLs and SSH forms of
\* every host, and inputs the URL constructor treats in its own ways: the
\* other markers, a query and a fragment, credentials, dot segments, a scheme
\* with an opaque path, an '@' outside a URL, and texts that stop early.
ParseInputs ==
  Paths
    \cup {<<"h", "t", "t", "p", "s", ":", "/", "/", "g", "i", "t", "h", "u", "b", ".", "c", "o", "m", "/">> \o path : path \in Paths}
    \cup {scheme \o host \o S_slash \o path :
            scheme \in {<<"h", "t", "t", "p", "s", ":", "/", "/">>, <<"x", ":", "/", "/">>}, host \in Hosts,
            path \in {<<"o">>, <<"o", "/", "r">>, <<"o", "/", "r", "/", "s", "r", "c", "/", "b", "/", "s">>}}
    \cup {S_gitAt \o host \o <<":">> \o owner \o S_slash \o repo \o suffix :
            host \in Hosts, owner \in {<<"o">>, <<>>}, repo \in {<<"r">>, <<"x", ".", "g", "i", "t">>, <<>>},
            suffix \in {<<>>, S_dotGit}}
    \cup {<<"h", "t", "t", "p", "s", ":", "/", "/", "g", "i", "t", "h", "u", "b", ".", "c", "o", "m", "/", "o", "/", "r", "/", "b", "l", "o", "b", "/", "b", "/", "s">>, <<"h", "t", "t", "p", "s", ":", "/", "/", "g", "i", "t", "h", "u", "b", ".", "c", "o", "m", "/", "o", "/", "r", "/", "r", "a", "w", "/", "b">>,
          <<"h", "t", "t", "p", "s", ":", "/", "/", "g", "i", "t", "h", "u", "b", ".", "c", "o", "m", "/", "o", "/", "r", "/", "b", "r", "o", "w", "s", "e", "/", "b", "/", "s", "/", "t">>, <<"h", "t", "t", "p", "s", ":", "/", "/", "g", "i", "t", "h", "u", "b", ".", "c", "o", "m", "/", "o", "/", "r", "/", "t", "r", "e", "e", "/", "b", "?", "x", "#", "y">>,
          <<"h", "t", "t", "p", "s", ":", "/", "/", "u", ":", "p", "@", "g", "i", "t", "h", "u", "b", ".", "c", "o", "m", "/", "o", "/", "r">>, <<"h", "t", "t", "p", "s", ":", "/", "/", "g", "i", "t", "h", "u", "b", ".", "c", "o", "m", "/", "o", "/", ".", ".", "/", "r", "/", "s", "/", ".">>,
          <<"a", ":", "o", "/", "r", "@", "x">>, <<"o", "/", "r", "@", "x">>, <<"h", "t", "t", "p">>, <<"h", "t", "t", "p", "s", ":", "/", "/">>, <<"g", "i", "t", "@">>, <<"g", "i", "t", "@", "h", ":">>}

InitParse ==
  /\ fs = EmptyFs
  /\ tmp = {}
  /\ world = "parse"
  /\ \E input \in ParseInputs, override \in {<<>>, <<S_dev>>, <<<<>>>>},
        top \in {"parseInput", "getTarUrl"} :
       inv = [p \in Procs |->
                IF p = 1
                THEN [pc |-> "parse", top |-> top,
                      cfg |-> [NoConfig EXCEPT !.url = input, !.branch = override]]
                       @@ Fresh("parse")
                ELSE IF top = "parseInput" /\ StartsWith(input, S_gitAt)
                THEN [pc |-> "parse", top |-> top,
                      cfg |-> [NoConfig EXCEPT !.url = input \o S_dotGit,
                                               !.branch = override]]
                       @@ Fresh("parse")
                ELSE Fresh("off")]

\* A call of parseInput (getTarUrl.ts:68).
ParseInput(p) ==
  /\ inv[p].pc = "parse"
  /\ inv[p].top = "parseInput"
  /\ Set(p, [pc |-> "done",
             out |-> [kind |-> "parsed",
                      value |-> parseInput(inv[p].cfg.url, inv[p].cfg.branch)]])
  /\ UNCHANGED <<fs, tmp, world>>

\* A call of getTarUrl (getTarUrl.ts:25): the catch returns null, and the
\* formatting itself cannot throw.
GetTarUrl(p) ==
  /\ inv[p].pc = "parse"
  /\ inv[p].top = "getTarUrl"
  /\ Set(p, [pc |-> "done",
             out |-> [kind |-> "tarUrl",
                      value |-> getTarUrl(inv[p].cfg.url, inv[p].cfg.branch)]])
  /\ UNCHANGED <<fs, tmp, world>>

NextParse == \E p \in Procs : ParseInput(p) \/ GetTarUrl(p)

SpecParse == InitParse /\ [][NextParse]_vars

(***************************************************************************)
(* Claims about parseInput and getTarUrl.                                  *)
(***************************************************************************)

\* The call of p has returned a descriptor or null.
ParsedBy(p) == inv[p].pc = "done" /\ inv[p].out.kind = "parsed"

NonEmptySegments(text) == SelectSeq(Split(text, "/"), LAMBDA s : s # <<>>)

\* The override when it is a non-empty string, 'main' otherwise.
OverrideOrMain(override) ==
  IF override \notin {<<>>, <<<<>>>>} THEN override[1] ELSE S_main

IsShortForm(input) ==
  /\ ~Includes(input, <<":", "/", "/">>)
  /\ ~StartsWith(input, <<"h", "t", "t", "p">>)
  /\ ~Includes(input, <<"@">>)

ShortDescriptor(segs, override) ==
  IF Len(segs) >= 2
  THEN <<[owner |-> segs[1], repo |-> segs[2], hostname |-> <<"g", "i", "t", "h", "u", "b", ".", "c", "o", "m">>,
          ref |-> OverrideOrMain(override), subpath |-> <<>>]>>
  ELSE <<>>

\* C25: a short-form identifier (no '://', no leading 'http', no '@') with at
\* least two non-empty '/'-separated segments parses to owner = first segment,
\* repo = second segment, hostname 'github.com', ref = the override when one
\* is given and 'main' otherwise, and no subpath; with fewer than two
\* non-empty segments it parses to null.
ShortFormParsed ==
  \A p \in Procs :
    ParsedBy(p) /\ IsShortForm(inv[p].cfg.url)
      => inv[p].out.value
           = ShortDescriptor(NonEmptySegments(inv[p].cfg.url), inv[p].cfg.branch)

\* A short form with empty segments and an override has been parsed.
ShortFormWithEmptySegments ==
  /\ ParsedBy(1)
  /\ inv[1].cfg.url = <<"o", "/", "/", "t", "r", "e", "e", "/", "o">>
  /\ inv[1].cfg.branch = <<S_dev>>
  /\ inv[1].out.value # <<>>
  /\ inv[1].out.value[1].repo = <<"t", "r", "e", "e">>

\* Calls 1 and 2 have parsed an SSH form and the same form with '.git' appended.
BothFormsParsed ==
  /\ ParsedBy(1)
  /\ ParsedBy(2)
  /\ inv[2].cfg.url = inv[1].cfg.url \o S_dotGit

\* C26 as stated: for every host H, owner O and repo name R,
\* parseInput('git@H:O/R.git') and parseInput('git@H:O/R') are the same
\* descriptor.
DotGitInsignificant ==
  BothFormsParsed => inv[2].out.value = inv[1].out.value

\* C26: for every host H, owner O and repo name R that does not itself end in
\* '.git', parseInput('git@H:O/R.git') and parseInput('git@H:O/R') are the
\* same descriptor.
OneDotGitInsignificant ==
  BothFormsParsed /\ ~EndsWith(inv[1].cfg.url, S_dotGit)
    => inv[2].out.value = inv[1].out.value

\* Both forms of a repo on a host with capitals gave the same descriptor.
BothFormsSameDescriptor ==
  /\ BothFormsParsed
  /\ inv[1].cfg.url = <<"g", "i", "t", "@", "G", "i", "t", "L", "a", "b", ".", "c", "o", "m", ":", "o", "/", "r">>
  /\ inv[1].out.value # <<>>
  /\ inv[2].out.value = inv[1].out.value

\* C27: parseInput returns null or a descriptor whose owner, repo, hostname
\* and ref are all non-empty, for every input and every override.
NoPartialDescriptor ==
  \A p \in Procs :
    ParsedBy(p) /\ inv[p].out.value # <<>>
      => /\ inv[p].out.value[1].owner # <<>>
         /\ inv[p].out.value[1].repo # <<>>
         /\ inv[p].out.value[1].hostname # <<>>
         /\ inv[p].out.value[1].ref # <<>>

\* The text after 'scheme://' of a URL text.
AfterScheme(url) == Drop(url, IndexOf(url, ":") + 2)

\* The text after the first '/' that follows the host, '' without one.
PathText(rest) == IF IndexOf(rest, "/") = 0 THEN <<>> ELSE Drop(rest, IndexOf(rest, "/"))

\* A URL text 'scheme://host/path' with a host, and with no credentials,
\* query, fragment or dot segment.
IsPlainUrl(url) ==
  /\ Includes(url, <<":", "/", "/">>)
  /\ ~StartsWith(url, <<"g", "i", "t", "@">>)
  /\ IndexOf(AfterScheme(url), "/") # 1
  /\ AfterScheme(url) # <<>>
  /\ \A i \in 1..Len(url) : url[i] \notin {"?", "#", "@"}
  /\ \A seg \in Range(Split(PathText(AfterScheme(url)), "/")) : seg \notin {<<".">>, <<".", ".">>}

RefMarkers == {<<"t", "r", "e", "e">>, <<"b", "l", "o", "b">>, <<"r", "a", "w">>, <<"s", "r", "c">>, <<"b", "r", "o", "w", "s", "e">>}

RefOfSegments(segs, override) ==
  IF Len(segs) >= 4 /\ segs[3] \in RefMarkers THEN segs[4] ELSE OverrideOrMain(override)

SubpathOfSegments(segs) ==
  IF Len(segs) >= 5 /\ segs[3] \in RefMarkers
  THEN <<Join(SubSeq(segs, 5, Len(segs)), S_slash)>> ELSE <<>>

RefAndSubpathOf(parsed, segs, override) ==
  /\ (parsed # <<>>) = (Len(segs) >= 2)
  /\ parsed # <<>>
       => /\ parsed[1].ref = RefOfSegments(segs, override)
          /\ parsed[1].subpath = SubpathOfSegments(segs)

\* C28: for a full URL whose third path segment is one of tree, blob, raw,
\* src, browse and which has a fourth segment, ref is the fourth segment
\* whatever the override is, and subpath is the remaining segments joined
\* with '/', absent when there are none; in every other case ref is the
\* override when one is given and 'main' otherwise, and subpath is absent.
RefAndSubpathFromPath ==
  \A p \in Procs :
    ParsedBy(p) /\ IsPlainUrl(inv[p].cfg.url)
      => RefAndSubpathOf(inv[p].out.value,
                         NonEmptySegments(PathText(AfterScheme(inv[p].cfg.url))),
                         inv[p].cfg.branch)

\* A URL with a marker, a ref and two more segments has been parsed with an
\* override: the ref is the segment, the subpath the two joined.
RefInPathBeatsOverride ==
  /\ ParsedBy(1)
  /\ inv[1].cfg.url = <<"h", "t", "t", "p", "s", ":", "/", "/", "g", "i", "t", "h", "u", "b", ".", "c", "o", "m", "/", "o", "/", "t", "r", "e", "e", "/", "t", "r", "e", "e", "/", "o", "/", "o", "/", "t", "r", "e", "e">>
  /\ inv[1].cfg.branch = <<S_dev>>
  /\ inv[1].out.value # <<>>
  /\ inv[1].out.value[1].ref = <<"o">>
  /\ inv[1].out.value[1].subpath = <<<<"o", "/", "t", "r", "e", "e">>>>

\* The call of p was one of getTarUrl and has returned.
TarUrlBy(p) == inv[p].pc = "done" /\ inv[p].out.kind = "tarUrl"

PlatformKeywords ==
  {<<"d", "e", "v", ".", "a", "z", "u", "r", "e", ".", "c", "o", "m">>, <<"v", "i", "s", "u", "a", "l", "s", "t", "u", "d", "i", "o", ".", "c", "o", "m">>, <<"c", "o", "d", "e", "b", "e", "r", "g">>, <<"f", "o", "r", "g", "e", "j", "o">>, <<"g", "i", "t", "e", "a">>, <<"g", "i", "t", "h", "u", "b">>,
   <<"g", "i", "t", "l", "a", "b">>, <<"b", "i", "t", "b", "u", "c", "k", "e", "t">>}

MatchesNoKeyword(hostname) ==
  \A keyword \in PlatformKeywords : ~Includes(ToLowerCase(hostname), keyword)

\* The descriptor gives no URL: there is none, or its host has no platform,
\* or the platform is azure.
Unsupported(parsed) ==
  \/ parsed = <<>>
  \/ MatchesNoKeyword(parsed[1].hostname)
  \/ detectPlatform(parsed[1].hostname) = "azure"

\* C29: getTarUrl never raises: every call returns, null exactly when
\* parsing fails or the hostname matches no platform keyword or the platform
\* is azure, and a URL string in every other case.
NullExactlyWhenUnsupported ==
  \A p \in Procs :
    /\ inv[p].pc = "done" => inv[p].out.kind \in {"parsed", "tarUrl"}
    /\ TarUrlBy(p)
         => /\ (inv[p].out.value = <<>>)
                 = Unsupported(parseInput(inv[p].cfg.url, inv[p].cfg.branch))
            /\ inv[p].out.value # <<>> => StartsWith(inv[p].out.value[1], <<"h", "t", "t", "p", "s", ":", "/", "/">>)

\* getTarUrl returned null for a parsable URL of an azure host that also
\* holds the forgejo keyword.
NullForAzureHost ==
  /\ TarUrlBy(1)
  /\ inv[1].cfg.url = <<"h", "t", "t", "p", "s", ":", "/", "/", "f", "o", "r", "g", "e", "j", "o", ".", "d", "e", "v", ".", "a", "z", "u", "r", "e", ".", "c", "o", "m", "/", "o", "/", "r">>
  /\ parseInput(inv[1].cfg.url, inv[1].cfg.branch) # <<>>
  /\ inv[1].out.value = <<>>

\* The templates, for a descriptor d of a platform with an archive URL.
TemplateUrl(platform, d) ==
  IF platform = "gitlab"
  THEN <<"h", "t", "t", "p", "s", ":", "/", "/">> \o d.hostname \o <<"/">> \o d.owner \o <<"/">> \o d.repo \o <<"/", "-", "/", "a", "r", "c", "h", "i", "v", "e", "/">>
         \o d.ref \o <<"/">> \o d.repo \o <<"-">> \o d.ref \o <<".", "t", "a", "r", ".", "g", "z">>
  ELSE IF platform = "bitbucket"
  THEN <<"h", "t", "t", "p", "s", ":", "/", "/">> \o d.hostname \o <<"/">> \o d.owner \o <<"/">> \o d.repo \o <<"/", "g", "e", "t", "/">>
         \o d.ref \o <<".", "t", "a", "r", ".", "g", "z">>
  ELSE <<"h", "t", "t", "p", "s", ":", "/", "/">> \o d.hostname \o <<"/">> \o d.owner \o <<"/">> \o d.repo \o <<"/", "a", "r", "c", "h", "i", "v", "e", "/">>
         \o d.ref \o <<".", "t", "a", "r", ".", "g", "z">>

UrlOfDescriptor(parsed, url) ==
  parsed # <<>> /\ detectPlatform(parsed[1].hostname) \notin {"null", "azure"}
    => url = <<TemplateUrl(detectPlatform(parsed[1].hostname), parsed[1])>>

\* The host text of an SSH form: what stands between 'git@' and the first ':'.
SshHostText(input) == SubSeq(input, 5, IndexOf(input, ":") - 1)

\* The host text of a URL text: what stands between '://' and the next '/',
\* the port included.
UrlHostText(url) == CutAt(AfterScheme(url), IndexOf(AfterScheme(url), "/"))

\* The input is an SSH form or an https URL text, and hostText is its host
\* text.
HostTextOf(input, hostText) ==
  \/ StartsWith(input, <<"g", "i", "t", "@">>) /\ hostText = SshHostText(input)
  \/ /\ StartsWith(input, <<"h", "t", "t", "p", "s", ":", "/", "/">>)
     /\ IsPlainUrl(input)
     /\ hostText = UrlHostText(input)

\* C30 as stated: for every descriptor of a supported platform getTarUrl
\* returns the template of the platform, with the host taken verbatim from
\* the input.
TarUrlHostVerbatim ==
  \A p \in Procs :
    TarUrlBy(p)
      => /\ UrlOfDescriptor(parseInput(inv[p].cfg.url, inv[p].cfg.branch),
                            inv[p].out.value)
         /\ \A hostText \in {SshHostText(inv[p].cfg.url), UrlHostText(inv[p].cfg.url)} :
              HostTextOf(inv[p].cfg.url, hostText) /\ inv[p].out.value # <<>>
                => StartsWith(inv[p].out.value[1], <<"h", "t", "t", "p", "s", ":", "/", "/">> \o hostText \o S_slash)

\* C30: for every descriptor {host, owner, repo, ref} of a supported
\* platform, getTarUrl returns
\* https://{host}/{owner}/{repo}/-/archive/{ref}/{repo}-{ref}.tar.gz for
\* gitlab, https://{host}/{owner}/{repo}/get/{ref}.tar.gz for bitbucket and
\* https://{host}/{owner}/{repo}/archive/{ref}.tar.gz for github, gitea,
\* codeberg and forgejo, with the host being the descriptor's hostname: the
\* host text of an SSH form as it is written, and the host name of an https
\* URL in lower case and without its port.
TarUrlFollowsTemplate ==
  \A p \in Procs :
    TarUrlBy(p)
      => /\ UrlOfDescriptor(parseInput(inv[p].cfg.url, inv[p].cfg.branch),
                            inv[p].out.value)
         /\ StartsWith(inv[p].cfg.url, <<"g", "i", "t", "@">>) /\ inv[p].out.value # <<>>
              => StartsWith(inv[p].out.value[1],
                            <<"h", "t", "t", "p", "s", ":", "/", "/">> \o SshHostText(inv[p].cfg.url) \o S_slash)
         /\ HostTextOf(inv[p].cfg.url, UrlHostText(inv[p].cfg.url))
              /\ ~StartsWith(inv[p].cfg.url, <<"g", "i", "t", "@">>) /\ inv[p].out.value # <<>>
              => StartsWith(inv[p].out.value[1],
                            <<"h", "t", "t", "p", "s", ":", "/", "/">> \o ToLowerCase(CutAt(UrlHostText(inv[p].cfg.url),
                                                       IndexOf(UrlHostText(inv[p].cfg.url), ":")))
                              \o S_slash)

\* getTarUrl returned the gitlab URL of an SSH form whose host has capitals,
\* with an override as the ref.
GitlabUrlKeepsHost ==
  /\ TarUrlBy(1)
  /\ inv[1].cfg.url = <<"g", "i", "t", "@", "G", "i", "t", "L", "a", "b", ".", "c", "o", "m", ":", "o", "/", "r", ".", "g", "i", "t">>
  /\ inv[1].cfg.branch = <<S_dev>>
  /\ inv[1].out.value = <<<<"h", "t", "t", "p", "s", ":", "/", "/", "G", "i", "t", "L", "a", "b", ".", "c", "o", "m", "/", "o", "/", "r", "/", "-", "/", "a", "r", "c", "h", "i", "v", "e", "/", "d", "e", "v", "/", "r", "-", "d", "e", "v", ".", "t", "a", "r", ".", "g", "z">>>>

\* The platforms in the order of the claim, each with its keywords.
KeywordOrder ==
  << <<"azure", {<<"d", "e", "v", ".", "a", "z", "u", "r", "e", ".", "c", "o", "m">>, <<"v", "i", "s", "u", "a", "l", "s", "t", "u", "d", "i", "o", ".", "c", "o", "m">>}>>,
     <<"codeberg", {<<"c", "o", "d", "e", "b", "e", "r", "g">>}>>,
     <<"forgejo", {<<"f", "o", "r", "g", "e", "j", "o">>}>>,
     <<"gitea", {<<"g", "i", "t", "e", "a">>}>>,
     <<"github", {<<"g", "i", "t", "h", "u", "b">>}>>,
     <<"gitlab", {<<"g", "i", "t", "l", "a", "b">>}>>,
     <<"bitbucket", {<<"b", "i", "t", "b", "u", "c", "k", "e", "t">>}>> >>

\* The entries of KeywordOrder with a keyword the host name holds, letter
\* case left aside.
MatchingEntries(hostname) ==
  {i \in 1..Len(KeywordOrder) :
     \E keyword \in KeywordOrder[i][2] : Includes(ToLowerCase(hostname), keyword)}

FirstMatch(matching) ==
  IF matching = {} THEN "none"
  ELSE KeywordOrder[CHOOSE i \in matching : \A j \in matching : i <= j][1]

UrlOfFirstMatch(parsed, platform, url) ==
  IF platform \in {"none", "azure"} THEN url = <<>>
  ELSE url = <<TemplateUrl(platform, parsed[1])>>

\* C31: platform detection is a case-insensitive substring match in the order
\* azure, codeberg, forgejo, gitea, github, gitlab, bitbucket, the first match
\* winning: a host name with an azure keyword gives null from getTarUrl even
\* when it holds another keyword, and a host name with both 'github' and
\* 'gitlab' gets the github URL format.
FirstKeywordWins ==
  \A p \in Procs :
    TarUrlBy(p) /\ parseInput(inv[p].cfg.url, inv[p].cfg.branch) # <<>>
      => UrlOfFirstMatch(parseInput(inv[p].cfg.url, inv[p].cfg.branch),
                         FirstMatch(MatchingEntries(
                           parseInput(inv[p].cfg.url, inv[p].cfg.branch)[1].hostname)),
                         inv[p].out.value)

\* getTarUrl returned the github format for a host holding 'gitlab' before
\* 'github'.
GithubBeforeGitlab ==
  /\ TarUrlBy(1)
  /\ inv[1].cfg.url = <<"h", "t", "t", "p", "s", ":", "/", "/", "g", "i", "t", "l", "a", "b", ".", "g", "i", "t", "h", "u", "b", ".", "x", "/", "o", "/", "r">>
  /\ inv[1].out.value = <<<<"h", "t", "t", "p", "s", ":", "/", "/", "g", "i", "t", "l", "a", "b", ".", "g", "i", "t", "h", "u", "b", ".", "x", "/", "o", "/", "r", "/", "a", "r", "c", "h", "i", "v", "e", "/", "m", "a", "i", "n", ".", "t", "a", "r", ".", "g", "z">>>>

(***************************************************************************)
(* Claims about the returned file list and the cache it comes from.        *)
(***************************************************************************)

\* The directory the returned list was scanned in: outDir after a copy, the
\* searched directory of the cache otherwise.
ScannedDir(p) ==
  IF inv[p].out.outDir # inv[p].out.cacheDir
  THEN inv[p].out.outDir
  ELSE SubDir(inv[p].out.cacheDir, inv[p].subpath)

\* files is strictly ascending, and each of its paths is a regular file below
\* dir with no dot-prefixed name on the way from dir.
SortedVisibleFiles(files, dir) ==
  /\ \A i \in 1..Len(files) : \A j \in (i + 1)..Len(files) : StrLess(files[i], files[j])
  /\ \A i \in 1..Len(files) :
       /\ IsFile(fs, Canon(files[i]))
       /\ IsPrefix(dir, Canon(files[i]))
       /\ ~IsHidden(Drop(Canon(files[i]), Len(dir)))

\* C32: result.files of every successful gittar call, hit or miss, with or
\* without copy, is sorted ascending by full path, free of duplicates, and
\* holds only regular files that are not dot-prefixed hidden entries.
FilesSortedVisible ==
  \A p \in Procs :
    Returned(p) /\ inv[p].out.files # <<>>
      => SortedVisibleFiles(inv[p].out.files[1], Canon(ScannedDir(p)))

\* A call returned two files of an archive that also holds a hidden one.
TwoFilesHiddenLeftOut ==
  /\ Returned(1)
  /\ inv[1].out.files # <<>>
  /\ Len(inv[1].out.files[1]) = 2
  /\ \E q \in DOMAIN fs : IsFile(fs, q) /\ IsHidden(q) /\ IsPrefix(Canon(ScannedDir(1)), q)
                             /\ ~IsHidden(SubSeq(q, 1, Len(q) - 1))

\* dir holds every entry of the archive of some ref, its root stripped.
HoldsSnapshot(dir) ==
  \E ref \in CandidateBranches :
    \A e \in Range(StripComponents(Archive(ref))) :
      IsFile(fs, dir \o e.path) /\ fs[dir \o e.path] = e.data

\* C33: whenever a call returns fromCache = true, cacheDir holds the complete
\* snapshot an earlier extraction wrote; a call that follows one that failed
\* during extraction reports no cache hit.
HitHasCompleteSnapshot ==
  \A p \in Procs :
    Returned(p) /\ inv[p].out.fromCache => HoldsSnapshot(Canon(inv[p].out.cacheDir))

\* The requests of the call of p that were answered with an ok status.
Downloads(p) ==
  {i \in 1..Len(inv[p].reqs) :
     inv[p].reqs[i].kind = "response" /\ inv[p].reqs[i].status \in 200..299}

\* C34: in every returned result, fromCache = true if and only if the call
\* issued no HTTP request and performed no extraction, and fromCache = false
\* if and only if one download succeeded and one extraction into cacheDir
\* completed in that call.
FromCacheIffNoDownload ==
  \A p \in Procs :
    Returned(p)
      => /\ inv[p].out.fromCache = (inv[p].reqs = <<>> /\ ~inv[p].extracted)
         /\ (~inv[p].out.fromCache)
              = (Cardinality(Downloads(p)) = 1 /\ inv[p].extracted)

\* A miss returned after a 404 for the first candidate and a download of the
\* second.
MissAfterSecondCandidate ==
  /\ Returned(1)
  /\ ~inv[1].out.fromCache
  /\ Len(inv[1].reqs) = 2
  /\ Downloads(1) = {2}
  /\ inv[1].extracted

\* C36: every result gittar returns has a sequence of paths as files, never
\* null; a call whose effective subpath is not in the extracted archive fails
\* with FSError, with outDir equal to cacheDir as with another outDir.
FilesNeverNull ==
  \A p \in Procs :
    /\ Returned(p) => inv[p].out.files # <<>>
    /\ Done(p) /\ inv[p].extracted /\ inv[p].subpath = <<P_n>>
         => inv[p].out.kind = "FSError"

\* The call of p is at a point from which it can still end in URLError: it has
\* not started, or it is before its cache check or its download.
BeforeExtraction(p) == inv[p].pc \in {"idle", "done", "check", "download"}

\* C37: a call of gittar that fails with URLError has not created or modified
\* anything under cacheDir or outDir: every step of it, from the parse to the
\* request that fails, leaves the filesystem as it is, and URLError comes from
\* these steps only.
URLErrorLeavesFilesystem ==
  [][\A p \in Procs :
       /\ BeforeExtraction(p) /\ inv'[p] # inv[p] => fs' = fs /\ tmp' = tmp
       /\ inv'[p] # inv[p] /\ inv'[p].pc = "done" /\ inv'[p].out.kind = "URLError"
            => BeforeExtraction(p) /\ ~inv'[p].extracted /\ inv'[p].k = 0]_vars

\* A call that found no cache and was answered 404 for its last candidate
\* ended in URLError.
URLErrorAfterMiss ==
  /\ Done(1)
  /\ inv[1].out.kind = "URLError"
  /\ inv[1].checked = "miss"
  /\ Len(inv[1].reqs) = 2
  /\ \A q \in DOMAIN fs : ~IsPrefix(Canon(inv[1].cacheDir), q)

\* The second of two calls names the repository of the first another way:
\* another branch, or another identifier (host, ref in the path).
NamedAnotherWay ==
  inv[2].cfg.url # inv[1].cfg.url \/ inv[2].cfg.branch # inv[1].cfg.branch

\* The first call returned a result and the second, made without update, has
\* checked the cache and not touched the disk since.
CheckedAfterFirst ==
  /\ Returned(1)
  /\ inv[2].checked # "no"
  /\ \/ inv[2].pc = "download"
     \/ inv[2].pc = "copy" /\ ~inv[2].extracted
     \/ Done(2) /\ inv[2].out.kind = "URLError"
     \/ Done(2) /\ inv[2].checked = "hit" /\ inv[2].outdir = inv[2].cacheDir

\* C35 as stated: after a call that returned a result, a later call without
\* update for the same owner and repo under another branch, ref or host
\* returns from the cache, fromCache = true, without any request.
KeyedByOwnerAndRepoAlone ==
  Returned(1) /\ Done(2) /\ inv[2].cfg.update # "true" /\ NamedAnotherWay
    => Returned(2) /\ inv[2].out.fromCache /\ inv[2].reqs = <<>>

\* C35: both calls use the same default cache directory, whatever the branch,
\* ref or host; the later call without update is a hit exactly when the path
\* its effective subpath names exists in that directory (always, when it has
\* none), and a hit sends no request and reports fromCache = true if it
\* returns; otherwise it is a miss and goes on to download.
KeyedByOwnerAndRepoForCachedSubpath ==
  /\ \A p \in Procs : inv[p].cacheDir # <<>> => inv[p].cacheDir = DefaultCacheDir(p)
  /\ inv[1].cacheDir # <<>> /\ inv[2].cacheDir # <<>> => inv[2].cacheDir = inv[1].cacheDir
  /\ CheckedAfterFirst =>
       inv[2].checked = (IF Exists(fs, Canon(SubDir(inv[1].cacheDir, inv[2].subpath)))
                         THEN "hit" ELSE "miss")
  /\ Returned(1) /\ inv[2].checked = "hit" =>
       /\ inv[2].reqs = <<>>
       /\ inv[2].fromCache
       /\ Done(2) => inv[2].out.kind \in {"result", "FSError"}
       /\ Returned(2) => inv[2].out.fromCache
  /\ Returned(1) /\ inv[2].checked = "miss" =>
       /\ ~inv[2].fromCache
       /\ Done(2) /\ inv[2].out.kind # "URLError" => inv[2].reqs # <<>>

\* The tree of main is cached under o/r; the call for branch v2 on another
\* host returns it from the cache without a request.
HitForOtherBranchAndHost ==
  /\ Returned(1) /\ inv[1].cfg.url = U_short /\ inv[1].cfg.branch = <<>>
  /\ inv[1].cfg.subpath = <<>>
  /\ Returned(2) /\ inv[2].cfg.url = U_unknown /\ inv[2].cfg.branch = <<S_v2>>
  /\ inv[2].cfg.update = "unset" /\ inv[2].cfg.subpath = <<>>
  /\ inv[2].out.fromCache /\ inv[2].reqs = <<>>
  /\ inv[2].out.files # <<>> /\ Len(inv[2].out.files[1]) = 2

\* The paths of the entries tar writes for the archive a call downloaded.
EntryPaths(p) == {e.path : e \in Range(Entries(inv[p].tarData))}

\* Both calls extracted an archive into the same cache directory, the second
\* after the first had returned.
ExtractedTwice ==
  Returned(1) /\ inv[1].extracted /\ inv[2].extracted /\ inv[2].cacheDir = inv[1].cacheDir

\* C38: extraction is additive: once a second archive is extracted into the
\* cache directory of a first one (as a call with update = true does), every
\* file of the second archive is there with the second archive's data, every
\* file only the first one had is there with its data, nothing else is, and a
\* call returning the listing of the whole cache directory lists the kept
\* files with the new ones.
ExtractionIsAdditive ==
  ExtractedTwice =>
    /\ \A e \in Range(Entries(inv[2].tarData)) :
         /\ IsFile(fs, Canon(inv[2].cacheDir) \o e.path)
         /\ fs[Canon(inv[2].cacheDir) \o e.path] = e.data
    /\ \A e \in Range(Entries(inv[1].tarData)) :
         e.path \notin EntryPaths(2) =>
           /\ IsFile(fs, Canon(inv[2].cacheDir) \o e.path)
           /\ fs[Canon(inv[2].cacheDir) \o e.path] = e.data
    /\ \A q \in DOMAIN fs :
         IsFile(fs, q) /\ IsPrefix(Canon(inv[2].cacheDir), q) =>
           Drop(q, Len(Canon(inv[2].cacheDir))) \in EntryPaths(1) \cup EntryPaths(2)
    /\ Returned(2) /\ inv[2].outdir = inv[2].cacheDir /\ ~Truthy(inv[2].subpath) =>
         /\ inv[2].out.files # <<>>
         /\ Range(inv[2].out.files[1]) =
              { inv[2].cacheDir \o S_slash \o Join(path, S_slash) :
                  path \in {q \in EntryPaths(1) \cup EntryPaths(2) : ~IsHidden(q)} }

\* After the tree of main, a call with update = true for v2 returns a, d and
\* the kept s/b, and a holds the data of v2.
UpdateKeptAndOverwrote ==
  /\ ExtractedTwice
  /\ inv[1].tarData.ref = <<S_main>> /\ inv[2].tarData.ref = <<S_v2>>
  /\ inv[2].cfg.update = "true"
  /\ Returned(2) /\ inv[2].outdir = inv[2].cacheDir /\ ~Truthy(inv[2].subpath)
  /\ Len(inv[2].out.files[1]) = 3
  /\ fs[Canon(inv[2].cacheDir) \o <<<<"a">>>>] = "V"
  /\ fs[Canon(inv[2].cacheDir) \o <<<<"s">>, <<"b">>>>] = "B"

\* The directory a call lists (checkCache) or copies from (copyFiles).
SourceDir(p) == Canon(SubDir(inv[p].cacheDir, inv[p].subpath))

\* C39 as stated: whenever a call returns a list of files, the directory it
\* listed or copied from is its cache directory or lies below it, and none of
\* the files it lists from the cache lies outside the cache directory.
SourceDirInsideCacheDir ==
  \A p \in Procs :
    Returned(p) /\ inv[p].out.files # <<>> =>
      /\ IsPrefix(Canon(inv[p].cacheDir), SourceDir(p))
      /\ inv[p].outdir = inv[p].cacheDir =>
           \A i \in 1..Len(inv[p].out.files[1]) :
             IsPrefix(Canon(inv[p].cacheDir), Canon(inv[p].out.files[1][i]))

=============================================================================
